---- MODULE Spec2Model ----
(***************************************************************************)
(* Instruction execution engine of agentflow (chenxingqiang/APOS).         *)
(*                                                                         *)
(* The instruction classes exercised by tests/core/instructions/           *)
(* test_advanced.py: SimpleInstruction (an Advanced Instruction leaf with  *)
(* validation rules), SimpleCompositeInstruction, SimpleParallelInstruction*)
(* and ConditionalInstructionTest.  The execute() template of the base     *)
(* class is in agentflow/core/instructions/base.py and advanced.py; it is  *)
(* modelled here from its specification (validate, run the body hook,      *)
(* wrap the outcome into an InstructionResult).                            *)
(*                                                                         *)
(* One execute() invocation is a frame on a call stack; the context is one *)
(* dictionary object shared by reference by every invocation of a call.    *)
(***************************************************************************)
EXTENDS Integers, Sequences, FiniteSets, TLC

VARIABLES
    root,               \* the instruction the caller builds and executes
    validation_rules,   \* SimpleInstruction.validation_rules, per leaf
    instructions,       \* the instructions list of a composite or parallel
    conditions,         \* ConditionalInstructionTest.conditions
    max_iterations,     \* IterativeInstruction.max_iterations, 0 while no
                        \* instance has been constructed
    adaptation_rules,   \* AdaptiveInstruction.adaptation_rules
    modifications,      \* what the adaptation rules of an adaptive
                        \* instruction have accumulated for later calls
    status,             \* logical InstructionStatus of every instruction
    stack,              \* per task, its active execute() invocations
    context,            \* the dict handed to the outermost execute()
    ret,                \* per task, what the execute() that ended last
                        \* handed back to its caller
    logs,               \* per task, its events in the current outermost
                        \* execute() call
    previous,           \* the result the caller keeps from the outermost
                        \* execute() call before the current one, with the
                        \* context it passed to that call
    agents,             \* AgentFactory.agents of the factory instance
    calls               \* the calls made on AgentFactory, with what each
                        \* handed back or raised

vars == <<root, validation_rules, instructions, conditions, max_iterations,
          adaptation_rules, modifications, status, stack, context, ret, logs,
          previous, agents, calls>>

\* what a running execute() of the instructions of the tests leaves alone
config == <<root, validation_rules, instructions, conditions, max_iterations,
            adaptation_rules, modifications, previous, agents, calls>>

(***************************************************************************)
(* Bounds.                                                                 *)
(***************************************************************************)
\* total number of rules, children and conditions configured
MaxConfig == 3
\* largest iteration budget a test gives to an iterative instruction
MaxIterations == 3
\* number of calls made on the agent factory
MaxCalls == 3

(***************************************************************************)
(* The instruction objects.  An instruction is identified by its name.     *)
(***************************************************************************)
Leaves == {"part1", "part2", "then"}
Composites == {"composite", "inner"}
Conditionals == {"conditional"}
Parallels == {"parallel"}
\* the instructions with a list of child instructions
Holders == Composites \cup Parallels
Instructions == Leaves \cup Composites \cup Conditionals \cup Parallels
\* the loop and feedback combinators; a test executes them on their own
Iteratives == {"iterative"}
Adaptives == {"adaptive"}
Kinds == Instructions \cup Iteratives \cup Adaptives

\* SimpleParallelInstruction launches self.instructions[:2]
LaunchLimit == 2
\* the caller's task and the tasks of a gather
TaskIds == 0..LaunchLimit

\* behaviour of a validation rule or of a condition when it is awaited
RuleKinds == {"true", "false", "raise"}

\* nesting level: an instruction only holds instructions of a lower level
Level(id) ==
    IF id \in Leaves THEN 0
    ELSE IF id = "composite" THEN 3
    ELSE IF id \in Parallels THEN 2
    ELSE 1

(***************************************************************************)
(* Values.  Every value is a record with a tag, so that any two values can *)
(* be compared.  A message is a sequence of text fragments.                *)
(***************************************************************************)
None == [tag |-> "none"]
Str(s) == [tag |-> "str", s |-> s]
Err(msg) == [tag |-> "err", msg |-> msg]
MapData(m) == [tag |-> "map", map |-> m]
ListData(xs) == [tag |-> "list", items |-> xs]
Num(n) == [tag |-> "num", n |-> n]

EmptyDict == [k \in {} |-> None]

sample_context == [input |-> Str("test_input"), state |-> Str("ready")]

\* the contexts a caller hands to execute()
Contexts == {sample_context}

\* dict.update(other) for a mapping other
DictUpdate(d, other) ==
    [k \in (DOMAIN d) \cup (DOMAIN other) |->
        IF k \in DOMAIN other THEN other[k] ELSE d[k]]

(***************************************************************************)
(* InstructionResult, ValidationResult.                                    *)
(***************************************************************************)
InstructionResult(st, data, error) ==
    [status |-> st, data |-> data, error |-> error]

ValidationResult(is_valid, score, violations) ==
    [is_valid |-> is_valid, score |-> score, metrics |-> EmptyDict,
     violations |-> violations]

\* outcome of a hook: it returns a value or raises an Exception
Returned(v) == [kind |-> "return", value |-> v]
Raised(msg) == [kind |-> "raise", msg |-> msg]

\* the Exception a test-supplied rule or condition raises
RuleError == <<"rule boom">>

(***************************************************************************)
(* SimpleInstruction._validate: the rules are awaited in list order; the   *)
(* first rule that returns a false value or raises ends the pass.          *)
(***************************************************************************)
\* variant: only a rule that raises blocks, a false return value is ignored
RECURSIVE ValidateFrom_false_passes(_, _)
ValidateFrom_false_passes(rules, k) ==
    IF k > Len(rules)
    THEN ValidationResult(TRUE, 1, <<>>)
    ELSE IF rules[k] = "raise"
    THEN ValidationResult(FALSE, 0,
                          << <<"Error in validation: ">> \o RuleError >>)
    ELSE ValidateFrom_false_passes(rules, k + 1)

\* variant: a rule that raises is reported like a rule that returned false
RECURSIVE ValidateFrom_raise_as_false(_, _)
ValidateFrom_raise_as_false(rules, k) ==
    IF k > Len(rules)
    THEN ValidationResult(TRUE, 1, <<>>)
    ELSE IF rules[k] # "true"
    THEN ValidationResult(FALSE, 0, << <<"Failed validation rule">> >>)
    ELSE ValidateFrom_raise_as_false(rules, k + 1)

\* variant: a failed rule is recorded as a violation of a valid result
RECURSIVE ValidateFrom_lenient(_, _)
ValidateFrom_lenient(rules, k) ==
    IF k > Len(rules)
    THEN ValidationResult(TRUE, 1, <<>>)
    ELSE IF rules[k] = "raise"
    THEN ValidationResult(FALSE, 0,
                          << <<"Error in validation: ">> \o RuleError >>)
    ELSE IF rules[k] = "false"
    THEN ValidationResult(TRUE, 0, << <<"Failed validation rule">> >>)
    ELSE ValidateFrom_lenient(rules, k + 1)

RECURSIVE ValidateFrom(_, _)
ValidateFrom(rules, k) ==
    IF k > Len(rules)
    THEN ValidationResult(TRUE, 1, <<>>)
    ELSE IF rules[k] = "raise"
    THEN ValidationResult(FALSE, 0,
                          << <<"Error in validation: ">> \o RuleError >>)
    ELSE IF rules[k] = "false"
    THEN ValidationResult(FALSE, 0, << <<"Failed validation rule">> >>)
    ELSE ValidateFrom(rules, k + 1)

\* variant: the pass awaits every rule of the list
AwaitedFrom_all(rules, k) == Len(rules)

\* number of rules a pass over rules awaits
RECURSIVE AwaitedFrom(_, _)
AwaitedFrom(rules, k) ==
    IF k > Len(rules) THEN Len(rules)
    ELSE IF rules[k] # "true" THEN k
    ELSE AwaitedFrom(rules, k + 1)

\* the combinators of the tests define no rule of their own
RulesOf(id) ==
    IF id \in Leaves THEN validation_rules[id] ELSE <<>>

_validate(id) == ValidateFrom(RulesOf(id), 1)

(***************************************************************************)
(* execute() of the base class: what one invocation hands to its caller.   *)
(***************************************************************************)
RECURSIVE JoinViolations(_)
JoinViolations(violations) ==
    IF violations = <<>> THEN <<>>
    ELSE IF Len(violations) = 1 THEN violations[1]
    ELSE violations[1] \o <<"; ">> \o JoinViolations(Tail(violations))

\* validation failed: the body hook is skipped
execute_invalid(v) ==
    [kind |-> "result",
     result |-> InstructionResult("Failed", None,
                                  Err(JoinViolations(v.violations)))]

\* variant: a failure of the body is raised again instead of being caught
execute_body_propagates(o) ==
    IF o.kind = "return"
    THEN [kind |-> "result",
          result |-> InstructionResult("Completed", o.value, None)]
    ELSE [kind |-> "raise", msg |-> o.msg]

\* variant: the failure's message is replaced by a fixed text
execute_body_generic_error(o) ==
    [kind |-> "result",
     result |-> IF o.kind = "return"
                THEN InstructionResult("Completed", o.value, None)
                ELSE InstructionResult("Failed", None,
                                       Err(<<"Execution failed">>))]

\* variant: the value the body returned is dropped
execute_body_drops_data(o) ==
    [kind |-> "result",
     result |-> IF o.kind = "return"
                THEN InstructionResult("Completed", MapData(EmptyDict), None)
                ELSE InstructionResult("Failed", None, Err(o.msg))]

\* the body hook _execute_impl ended with outcome o
execute_body(o) ==
    [kind |-> "result",
     result |-> IF o.kind = "return"
                THEN InstructionResult("Completed", o.value, None)
                ELSE InstructionResult("Failed", None, Err(o.msg))]

(***************************************************************************)
(* Bodies.                                                                 *)
(***************************************************************************)
\* variant: the body forgets its return statement
SimpleInstruction_execute_impl_returns_none(id) ==
    Returned(None)

\* variant: the body answers from a cache once the caller holds a result
SimpleInstruction_execute_impl_remembers(id) ==
    Returned(MapData([name |-> Str(id),
                      result |-> IF previous.kind = "result"
                                 THEN Str("cached") ELSE Str("success")]))

\* SimpleInstruction._execute_impl
SimpleInstruction_execute_impl(id) ==
    Returned(MapData([name |-> Str(id), result |-> Str("success")]))

\* variant: context.update(result.data or {})
context_update_tolerant(d, data) ==
    IF data.tag = "map" THEN Returned(DictUpdate(d, data.map))
    ELSE IF data.tag = "list"
    THEN IF Len(data.items) = 0 THEN Returned(d)
         ELSE Raised(<<"cannot convert dictionary update sequence element #0 to a sequence">>)
    ELSE Returned(d)

\* context.update(result.data) in SimpleCompositeInstruction._execute_impl
context_update(d, data) ==
    IF data.tag = "map" THEN Returned(DictUpdate(d, data.map))
    ELSE IF data.tag = "list"
    THEN IF Len(data.items) = 0 THEN Returned(d)
         ELSE Raised(<<"cannot convert dictionary update sequence element #0 to a sequence">>)
    ELSE Raised(<<"'NoneType' object is not iterable">>)

\* variant: the except clause leaves out the name of the instruction
ErrorIn_anonymous(id, msg) == Raised(<<"Error in instruction: ">> \o msg)

\* the except clause of SimpleCompositeInstruction._execute_impl
ErrorIn(id, msg) == Raised(<<"Error in ", id, ": ">> \o msg)

\* variant: the last branch is the default when no condition matches
FirstHit_default(conds, k) ==
    IF \E j \in k..Len(conds) : conds[j].condition # "false"
    THEN CHOOSE j \in k..Len(conds) :
            /\ conds[j].condition # "false"
            /\ \A i \in k..(j - 1) : conds[i].condition = "false"
    ELSE Len(conds)

\* variant: a condition that raises is skipped like one that returns false
FirstHit_skips_raise(conds, k) ==
    IF \E j \in k..Len(conds) : conds[j].condition = "true"
    THEN CHOOSE j \in k..Len(conds) :
            /\ conds[j].condition = "true"
            /\ \A i \in k..(j - 1) : conds[i].condition # "true"
    ELSE 0

\* variant: the last condition that does not return false wins
FirstHit_last(conds, k) ==
    IF \E j \in k..Len(conds) : conds[j].condition # "false"
    THEN CHOOSE j \in k..Len(conds) :
            /\ conds[j].condition # "false"
            /\ \A i \in (j + 1)..Len(conds) : conds[i].condition = "false"
    ELSE 0

\* index of the first condition that does not return false, 0 if none
RECURSIVE FirstHit(_, _)
FirstHit(conds, k) ==
    IF k > Len(conds) THEN 0
    ELSE IF conds[k].condition # "false" THEN k
    ELSE FirstHit(conds, k + 1)

(***************************************************************************)
(* Tasks and call stacks.  Task 0 is the caller's task; asyncio.gather     *)
(* wraps the execute() of each launched child in a task of its own.        *)
(***************************************************************************)
Frame(id) == [id |-> id, pc |-> "start", i |-> 1, results |-> <<>>]
NoRet == [kind |-> "none"]
Event(op, id, arg) == [op |-> op, id |-> id, arg |-> arg]

Top(t) == stack[t][Len(stack[t])]
Pop(t) == SubSeq(stack[t], 1, Len(stack[t]) - 1)
SetTop(t, f) == [stack[t] EXCEPT ![Len(stack[t])] = f]

\* no task has an invocation in progress
Idle == \A t \in TaskIds : stack[t] = <<>>

\* variant: the status is left at Running when the invocation ends
Finish_keeps_running(t, w, events) ==
    /\ stack' = [stack EXCEPT ![t] = Pop(t)]
    /\ status' = status
    /\ ret' = [ret EXCEPT ![t] = w]
    /\ logs' = [logs EXCEPT ![t] =
                   @ \o events \o <<Event("return", Top(t).id, w)>>]

\* the innermost invocation of task t ends and hands w to its caller
Finish(t, w, events) ==
    /\ stack' = [stack EXCEPT ![t] = Pop(t)]
    /\ status' = [status EXCEPT ![Top(t).id] =
                     IF w.kind = "result" THEN w.result.status ELSE @]
    /\ ret' = [ret EXCEPT ![t] = w]
    /\ logs' = [logs EXCEPT ![t] =
                   @ \o events \o <<Event("return", Top(t).id, w)>>]

\* the body hook of the innermost invocation of task t ended with outcome o
FinishBody(t, o, events) ==
    Finish(t, execute_body(o), events \o <<Event("body", Top(t).id, o)>>)

\* the innermost invocation of t, now in frame f, awaits child.execute(context)
Call(t, child, f, events) ==
    /\ stack' = [stack EXCEPT ![t] = Append(SetTop(t, f), Frame(child))]
    /\ status' = [status EXCEPT ![child] = "Running"]
    /\ ret' = [ret EXCEPT ![t] = NoRet]
    /\ logs' = [logs EXCEPT ![t] =
                   @ \o events \o <<Event("execute", child, context)>>]

(***************************************************************************)
(* Configuration.                                                          *)
(***************************************************************************)
Range(s) == {s[k] : k \in DOMAIN s}

RECURSIVE SumLen(_, _)
SumLen(f, S) ==
    IF S = {} THEN 0
    ELSE LET x == CHOOSE y \in S : TRUE
         IN Len(f[x]) + SumLen(f, S \ {x})

ConfigSize ==
    SumLen(validation_rules, Leaves) + SumLen(instructions, Holders)
        + SumLen(conditions, Conditionals)

\* the instructions that hold id
Parents(id) ==
    {c \in Holders : id \in Range(instructions[c])}
        \cup {c \in Conditionals :
                \E k \in DOMAIN conditions[c] :
                    conditions[c][k].instruction = id}

\* the instructions id holds
Kids(id) ==
    IF id \in Holders THEN Range(instructions[id])
    ELSE IF id \in Conditionals
    THEN {conditions[id][k].instruction : k \in DOMAIN conditions[id]}
    ELSE {}

\* the instruction tree under the instructions S, n levels down
RECURSIVE Reach(_, _)
Reach(S, n) ==
    IF n = 0 THEN S
    ELSE Reach(S \cup UNION {Kids(id) : id \in S}, n - 1)

\* the instruction tree of the caller
Tree == Reach({root}, Level(root))

\* lists of distinct elements of S, of length at most n
ListsOver(S, n) ==
    {xs \in UNION {[1..k -> S] : k \in 0..n} :
        \A a, b \in DOMAIN xs : xs[a] = xs[b] => a = b}

\* the instructions are configured before the first execute()
Configuring == Idle /\ logs[0] = <<>>

\* the lists a test may assign to c.instructions within the budget
Candidates(c) ==
    IF Configuring
    THEN ListsOver({id \in Instructions : Level(id) < Level(c)},
                   MaxConfig - ConfigSize + Len(instructions[c]))
    ELSE {}

\* every object as its constructor leaves it, and no call in progress
Fresh ==
    /\ validation_rules = [l \in Leaves |-> <<>>]
    /\ instructions = [c \in Holders |-> <<>>]
    /\ conditions = [c \in Conditionals |-> <<>>]
    /\ max_iterations = [c \in Iteratives |-> 0]
    /\ adaptation_rules = [c \in Adaptives |-> <<>>]
    /\ modifications = [c \in Adaptives |-> EmptyDict]
    /\ status = [id \in Kinds |-> "Pending"]
    /\ stack = [t \in TaskIds |-> <<>>]
    /\ context = EmptyDict
    /\ ret = [t \in TaskIds |-> NoRet]
    /\ logs = [t \in TaskIds |-> <<>>]
    /\ previous = NoRet
    /\ agents = EmptyDict
    /\ calls = <<>>

Init ==
    /\ root \in Instructions
    /\ Fresh

\* variant: the rule is put at the head of the list
add_validation_rule_prepends(l, rule) ==
    /\ Configuring
    /\ l \in Tree
    /\ ConfigSize < MaxConfig
    /\ validation_rules' = [validation_rules EXCEPT ![l] = <<rule>> \o @]
    /\ UNCHANGED <<root, instructions, conditions, max_iterations,
                   adaptation_rules, modifications, status, stack, context,
                   ret, logs,
                   previous, agents, calls>>

\* SimpleInstruction.add_validation_rule
add_validation_rule(l, rule) ==
    /\ Configuring
    /\ l \in Tree
    /\ ConfigSize < MaxConfig
    /\ validation_rules' = [validation_rules EXCEPT ![l] = Append(@, rule)]
    /\ UNCHANGED <<root, instructions, conditions, max_iterations,
                   adaptation_rules, modifications, status, stack, context,
                   ret, logs,
                   previous, agents, calls>>

\* composite.instructions = [...], parallel.instructions = [...]
set_instructions(c, xs) ==
    /\ Configuring
    /\ c \in Tree
    /\ ConfigSize - Len(instructions[c]) + Len(xs) <= MaxConfig
    /\ \A k \in DOMAIN xs :
          /\ Level(xs[k]) < Level(c)
          /\ Parents(xs[k]) \subseteq {c}
    /\ instructions' = [instructions EXCEPT ![c] = xs]
    /\ UNCHANGED <<root, validation_rules, conditions, max_iterations,
                   adaptation_rules, modifications, status, stack, context,
                   ret, logs,
                   previous, agents, calls>>

\* ConditionalInstructionTest.add_condition
add_condition(c, condition, instruction) ==
    /\ Configuring
    /\ c \in Tree
    /\ ConfigSize < MaxConfig
    /\ Parents(instruction) \subseteq {c}
    /\ conditions' = [conditions EXCEPT ![c] =
          Append(@, [condition |-> condition, instruction |-> instruction])]
    /\ UNCHANGED <<root, validation_rules, instructions, max_iterations,
                   adaptation_rules, modifications, status, stack,
                   context, ret, logs,
                   previous, agents, calls>>

(***************************************************************************)
(* execute().                                                              *)
(***************************************************************************)
\* the caller awaits id.execute(ctx) on the root of its instruction tree
Execute(id, ctx) ==
    /\ Idle
    /\ id = root
    /\ stack' = [t \in TaskIds |-> IF t = 0 THEN <<Frame(id)>> ELSE <<>>]
    /\ status' = [status EXCEPT ![id] = "Running"]
    /\ context' = ctx
    /\ ret' = [t \in TaskIds |-> NoRet]
    /\ logs' = [t \in TaskIds |->
                   IF t = 0 THEN <<Event("execute", id, ctx)>> ELSE <<>>]
    /\ previous' = IF ret[0].kind = "result"
                   THEN [kind |-> "result", result |-> ret[0].result,
                         context |-> logs[0][1].arg]
                   ELSE previous
    /\ UNCHANGED <<root, validation_rules, instructions, conditions,
                   max_iterations, adaptation_rules, modifications, agents,
                   calls>>

\* execute() awaits self._validate(context)
Validate(t) ==
    /\ stack[t] # <<>>
    /\ Top(t).pc = "start"
    /\ LET v == _validate(Top(t).id)
           n == AwaitedFrom(RulesOf(Top(t).id), 1)
           events == [k \in 1..n |-> Event("rule", Top(t).id, k)]
                        \o <<Event("validate", Top(t).id, v)>>
       IN IF v.is_valid
          THEN /\ stack' = [stack EXCEPT ![t] =
                               SetTop(t, [Top(t) EXCEPT !.pc = "body"])]
               /\ logs' = [logs EXCEPT ![t] = @ \o events]
               /\ UNCHANGED <<status, ret>>
          ELSE Finish(t, execute_invalid(v), events)
    /\ UNCHANGED <<config, context>>

\* execute() awaits SimpleInstruction._execute_impl(context)
LeafBody(t) ==
    /\ stack[t] # <<>>
    /\ Top(t).pc = "body"
    /\ Top(t).id \in Leaves
    /\ FinishBody(t, SimpleInstruction_execute_impl(Top(t).id),
                  <<Event("impl", Top(t).id, context)>>)
    /\ UNCHANGED <<config, context>>

\* variant: the loop starts a child and goes on without awaiting it
CompositeNext_no_await(t) ==
    /\ stack[t] # <<>>
    /\ Top(t).pc = "body"
    /\ Top(t).id \in Composites
    /\ LET events == IF Top(t).i = 1
                     THEN <<Event("impl", Top(t).id, context)>>
                     ELSE <<>>
           children == instructions[Top(t).id]
       IN IF Top(t).i > Len(children)
          THEN FinishBody(t, Returned(ListData(Top(t).results)), events)
          ELSE /\ stack' = [stack EXCEPT ![t] =
                               SetTop(t, [Top(t) EXCEPT !.i = @ + 1])]
               /\ status' = [status EXCEPT
                                 ![children[Top(t).i]] = "Running"]
               /\ logs' = [logs EXCEPT ![t] =
                              @ \o events \o
                              <<Event("execute", children[Top(t).i],
                                      context)>>]
               /\ UNCHANGED ret
    /\ UNCHANGED <<config, context>>

\* SimpleCompositeInstruction._execute_impl: the head of one loop iteration
CompositeNext(t) ==
    /\ stack[t] # <<>>
    /\ Top(t).pc = "body"
    /\ Top(t).id \in Composites
    /\ LET events == IF Top(t).i = 1
                     THEN <<Event("impl", Top(t).id, context)>>
                     ELSE <<>>
           children == instructions[Top(t).id]
       IN IF Top(t).i > Len(children)
          THEN FinishBody(t, Returned(ListData(Top(t).results)), events)
          ELSE IF children[Top(t).i] = "part1"
          THEN FinishBody(t, ErrorIn(children[Top(t).i],
                                     <<"Simulated error in part1">>), events)
          ELSE Call(t, children[Top(t).i], [Top(t) EXCEPT !.pc = "await"],
                    events)
    /\ UNCHANGED <<config, context>>

\* variant: results holds only the result of the child that ended last
CompositeResume_keeps_last(t) ==
    /\ stack[t] # <<>>
    /\ Top(t).pc = "await"
    /\ Top(t).id \in Composites
    /\ ret[t].kind # "none"
    /\ LET child == instructions[Top(t).id][Top(t).i]
       IN IF ret[t].kind = "raise"
          THEN /\ FinishBody(t, ErrorIn(child, ret[t].msg), <<>>)
               /\ UNCHANGED context
          ELSE LET u == context_update(context, ret[t].result.data)
               IN IF u.kind = "return"
                  THEN /\ context' = u.value
                       /\ stack' = [stack EXCEPT ![t] =
                             SetTop(t, [Top(t) EXCEPT
                                 !.pc = "body",
                                 !.i = @ + 1,
                                 !.results = <<ret[t].result>>])]
                       /\ ret' = [ret EXCEPT ![t] = NoRet]
                       /\ UNCHANGED <<status, logs>>
                  ELSE /\ FinishBody(t, ErrorIn(child, u.msg), <<>>)
                       /\ UNCHANGED context
    /\ UNCHANGED config

\* variant: a composite that fails puts the context back to what the
\* outermost call was given
CompositeResume_rolls_back(t) ==
    /\ stack[t] # <<>>
    /\ Top(t).pc = "await"
    /\ Top(t).id \in Composites
    /\ ret[t].kind # "none"
    /\ LET child == instructions[Top(t).id][Top(t).i]
       IN IF ret[t].kind = "raise"
          THEN /\ FinishBody(t, ErrorIn(child, ret[t].msg), <<>>)
               /\ context' = logs[0][1].arg
          ELSE LET u == context_update(context, ret[t].result.data)
               IN IF u.kind = "return"
                  THEN /\ context' = u.value
                       /\ stack' = [stack EXCEPT ![t] =
                             SetTop(t, [Top(t) EXCEPT
                                 !.pc = "body",
                                 !.i = @ + 1,
                                 !.results = Append(@, ret[t].result)])]
                       /\ ret' = [ret EXCEPT ![t] = NoRet]
                       /\ UNCHANGED <<status, logs>>
                  ELSE /\ FinishBody(t, ErrorIn(child, u.msg), <<>>)
                       /\ context' = logs[0][1].arg
    /\ UNCHANGED config

\* variant: a child that handed back Failed is executed a second time
CompositeResume_retries(t) ==
    /\ stack[t] # <<>>
    /\ Top(t).pc = "await"
    /\ Top(t).id \in Composites
    /\ ret[t].kind # "none"
    /\ LET child == instructions[Top(t).id][Top(t).i]
           tries == {k \in DOMAIN logs[t] :
                       logs[t][k] = Event("execute", child, logs[t][k].arg)}
       IN IF ret[t].kind = "raise"
          THEN /\ FinishBody(t, ErrorIn(child, ret[t].msg), <<>>)
               /\ UNCHANGED context
          ELSE IF ret[t].result.status = "Failed" /\ Cardinality(tries) < 2
          THEN /\ Call(t, child, Top(t), <<>>)
               /\ UNCHANGED context
          ELSE LET u == context_update(context, ret[t].result.data)
               IN IF u.kind = "return"
                  THEN /\ context' = u.value
                       /\ stack' = [stack EXCEPT ![t] =
                             SetTop(t, [Top(t) EXCEPT
                                 !.pc = "body",
                                 !.i = @ + 1,
                                 !.results = Append(@, ret[t].result)])]
                       /\ ret' = [ret EXCEPT ![t] = NoRet]
                       /\ UNCHANGED <<status, logs>>
                  ELSE /\ FinishBody(t, ErrorIn(child, u.msg), <<>>)
                       /\ UNCHANGED context
    /\ UNCHANGED config

\* SimpleCompositeInstruction._execute_impl: child.execute() has ended
CompositeResume(t) ==
    /\ stack[t] # <<>>
    /\ Top(t).pc = "await"
    /\ Top(t).id \in Composites
    /\ ret[t].kind # "none"
    /\ LET child == instructions[Top(t).id][Top(t).i]
       IN IF ret[t].kind = "raise"
          THEN /\ FinishBody(t, ErrorIn(child, ret[t].msg), <<>>)
               /\ UNCHANGED context
          ELSE LET u == context_update(context, ret[t].result.data)
               IN IF u.kind = "return"
                  THEN /\ context' = u.value
                       /\ stack' = [stack EXCEPT ![t] =
                             SetTop(t, [Top(t) EXCEPT
                                 !.pc = "body",
                                 !.i = @ + 1,
                                 !.results = Append(@, ret[t].result)])]
                       /\ ret' = [ret EXCEPT ![t] = NoRet]
                       /\ UNCHANGED <<status, logs>>
                  ELSE /\ FinishBody(t, ErrorIn(child, u.msg), <<>>)
                       /\ UNCHANGED context
    /\ UNCHANGED config

\* variant: every condition is awaited before the first match is looked for
ConditionalEval_awaits_all(t) ==
    /\ stack[t] # <<>>
    /\ Top(t).pc = "body"
    /\ Top(t).id \in Conditionals
    /\ LET conds == conditions[Top(t).id]
           hit == FirstHit(conds, 1)
           events == <<Event("impl", Top(t).id, context)>>
                        \o [k \in 1..Len(conds) |->
                              Event("condition", Top(t).id, k)]
       IN IF hit = 0
          THEN FinishBody(t, Raised(<<"No matching condition found">>),
                          events)
          ELSE IF conds[hit].condition = "raise"
          THEN FinishBody(t, Raised(RuleError), events)
          ELSE Call(t, conds[hit].instruction,
                    [Top(t) EXCEPT !.pc = "await", !.i = hit], events)
    /\ UNCHANGED <<config, context>>

\* ConditionalInstructionTest._execute_impl: the loop over the conditions
ConditionalEval(t) ==
    /\ stack[t] # <<>>
    /\ Top(t).pc = "body"
    /\ Top(t).id \in Conditionals
    /\ LET conds == conditions[Top(t).id]
           hit == FirstHit(conds, 1)
           n == IF hit = 0 THEN Len(conds) ELSE hit
           events == <<Event("impl", Top(t).id, context)>>
                        \o [k \in 1..n |-> Event("condition", Top(t).id, k)]
       IN IF hit = 0
          THEN FinishBody(t, Raised(<<"No matching condition found">>),
                          events)
          ELSE IF conds[hit].condition = "raise"
          THEN FinishBody(t, Raised(RuleError), events)
          ELSE Call(t, conds[hit].instruction,
                    [Top(t) EXCEPT !.pc = "await", !.i = hit], events)
    /\ UNCHANGED <<config, context>>

\* variant: the loop goes on to the later conditions after a branch has run
ConditionalResume_continues(t) ==
    /\ stack[t] # <<>>
    /\ Top(t).pc = "await"
    /\ Top(t).id \in Conditionals
    /\ ret[t].kind # "none"
    /\ LET conds == conditions[Top(t).id]
           hit == FirstHit(conds, Top(t).i + 1)
       IN IF hit # 0 /\ conds[hit].condition = "true"
          THEN Call(t, conds[hit].instruction, [Top(t) EXCEPT !.i = hit],
                    <<>>)
          ELSE FinishBody(t, Returned(MapData(
                                 [result |-> ret[t].result.data])), <<>>)
    /\ UNCHANGED <<config, context>>

\* variant: the pair whose branch was executed is taken off the list
ConditionalResume_consumes(t) ==
    /\ stack[t] # <<>>
    /\ Top(t).pc = "await"
    /\ Top(t).id \in Conditionals
    /\ ret[t].kind # "none"
    /\ IF ret[t].kind = "raise"
       THEN FinishBody(t, Raised(ret[t].msg), <<>>)
       ELSE FinishBody(t, Returned(MapData([result |-> ret[t].result.data])),
                       <<>>)
    /\ conditions' = [conditions EXCEPT ![Top(t).id] =
          SubSeq(@, 1, Top(t).i - 1) \o SubSeq(@, Top(t).i + 1, Len(@))]
    /\ UNCHANGED <<root, validation_rules, instructions, max_iterations,
                   adaptation_rules, modifications, context,
                   previous, agents, calls>>

\* ConditionalInstructionTest._execute_impl: the branch's execute() has ended
ConditionalResume(t) ==
    /\ stack[t] # <<>>
    /\ Top(t).pc = "await"
    /\ Top(t).id \in Conditionals
    /\ ret[t].kind # "none"
    /\ IF ret[t].kind = "raise"
       THEN FinishBody(t, Raised(ret[t].msg), <<>>)
       ELSE FinishBody(t, Returned(MapData([result |-> ret[t].result.data])),
                       <<>>)
    /\ UNCHANGED <<config, context>>

\* the children SimpleParallelInstruction launches: self.instructions[:2]
Launched(id) ==
    SubSeq(instructions[id], 1,
           IF Len(instructions[id]) < LaunchLimit
           THEN Len(instructions[id]) ELSE LaunchLimit)

\* SimpleParallelInstruction._execute_impl: one task per launched child, each
\* awaiting child.execute(context) on the one context object
ParallelLaunch ==
    /\ stack[0] # <<>>
    /\ Top(0).pc = "body"
    /\ Top(0).id \in Parallels
    /\ LET children == Launched(Top(0).id)
       IN /\ stack' = [t \in TaskIds |->
                IF t = 0 THEN SetTop(0, [Top(0) EXCEPT !.pc = "gather"])
                ELSE IF t <= Len(children)
                THEN <<[Frame(children[t]) EXCEPT !.pc = "new"]>>
                ELSE <<>>]
          /\ ret' = [t \in TaskIds |-> NoRet]
          /\ logs' = [logs EXCEPT ![0] =
                         Append(@, Event("impl", Top(0).id, context))]
    /\ UNCHANGED <<config, context, status>>

\* the event loop runs the task of a launched child for the first time: its
\* execute() starts
TaskStart(t) ==
    /\ stack[t] # <<>>
    /\ Top(t).pc = "new"
    /\ stack' = [stack EXCEPT ![t] = SetTop(t, [Top(t) EXCEPT !.pc = "start"])]
    /\ status' = [status EXCEPT ![Top(t).id] = "Running"]
    /\ logs' = [logs EXCEPT ![t] =
                   Append(@, Event("execute", Top(t).id, context))]
    /\ UNCHANGED <<config, context, ret>>

\* the outcomes gather hands back, in launch order: InstructionResult
\* objects go to successful_results, anything else to failed_results
RECURSIVE SuccessfulResults(_)
SuccessfulResults(rs) ==
    IF rs = <<>> THEN <<>>
    ELSE IF rs[1].kind = "result"
    THEN <<rs[1].result.data>> \o SuccessfulResults(Tail(rs))
    ELSE SuccessfulResults(Tail(rs))

RECURSIVE FailedResults(_)
FailedResults(rs) ==
    IF rs = <<>> THEN <<>>
    ELSE IF rs[1].kind = "result"
    THEN FailedResults(Tail(rs))
    ELSE <<rs[1].msg>> \o FailedResults(Tail(rs))

\* ", ".join(failed_results)
RECURSIVE JoinFailed(_)
JoinFailed(msgs) ==
    IF msgs = <<>> THEN <<>>
    ELSE IF Len(msgs) = 1 THEN msgs[1]
    ELSE msgs[1] \o <<", ">> \o JoinFailed(Tail(msgs))

\* SimpleParallelInstruction._execute_impl after the gather
ParallelOutcome(rs) ==
    IF FailedResults(rs) # <<>>
    THEN Raised(<<"One or more instructions failed: ">>
                   \o JoinFailed(FailedResults(rs)))
    ELSE Returned(MapData([results |-> ListData(SuccessfulResults(rs))]))

\* variant: the gather returns at the first Failed outcome without waiting
\* for the sibling tasks
ParallelGather_first_failure ==
    /\ stack[0] # <<>>
    /\ Top(0).pc = "gather"
    /\ Top(0).id \in Parallels
    /\ LET n == Len(Launched(Top(0).id))
       IN /\ \/ \A t \in 1..n : stack[t] = <<>> /\ ret[t].kind # "none"
             \/ \E t \in 1..n :
                   /\ stack[t] = <<>>
                   /\ ret[t].kind = "result"
                   /\ ret[t].result.status = "Failed"
          /\ FinishBody(0, ParallelOutcome(
                 [t \in 1..n |->
                     IF ret[t].kind = "none"
                     THEN Raised(<<"cancelled">>) ELSE ret[t]]), <<>>)
    /\ UNCHANGED <<config, context>>

\* asyncio.gather(*tasks, return_exceptions=True) returns once every task
\* has ended
ParallelGather ==
    /\ stack[0] # <<>>
    /\ Top(0).pc = "gather"
    /\ Top(0).id \in Parallels
    /\ LET n == Len(Launched(Top(0).id))
       IN /\ \A t \in 1..n : stack[t] = <<>> /\ ret[t].kind # "none"
          /\ FinishBody(0, ParallelOutcome([t \in 1..n |-> ret[t]]), <<>>)
    /\ UNCHANGED <<config, context>>

Next ==
    \/ \E l \in Leaves, rule \in RuleKinds : add_validation_rule(l, rule)
    \/ \E c \in Holders :
          \E xs \in Candidates(c) : set_instructions(c, xs)
    \/ \E c \in Conditionals, condition \in RuleKinds, l \in Leaves :
          add_condition(c, condition, l)
    \/ \E id \in Instructions, ctx \in Contexts : Execute(id, ctx)
    \/ \E t \in TaskIds : Validate(t)
    \/ \E t \in TaskIds : LeafBody(t)
    \/ \E t \in TaskIds : CompositeNext(t)
    \/ \E t \in TaskIds : CompositeResume(t)
    \/ \E t \in TaskIds : ConditionalEval(t)
    \/ \E t \in TaskIds : ConditionalResume(t)
    \/ ParallelLaunch
    \/ \E t \in TaskIds : TaskStart(t)
    \/ ParallelGather

Spec == Init /\ [][Next]_vars

(***************************************************************************)
(* IterativeInstruction (agentflow/core/instructions/advanced.py): the     *)
(* body is repeated under the iteration budget max_iterations until the    *)
(* counter reaches the budget or the body reports convergence.  A failure  *)
(* of one iteration ends the loop and fails the instruction.               *)
(***************************************************************************)
\* the budgets a test hands to the constructor
Budgets == (0 - 1)..MaxIterations

\* what the body does in one iteration: it requests another iteration,
\* reports convergence, or raises
IterationKinds == {"continue", "converged", "raise"}

\* the output the body records for iteration n
IterationOutput(id, n) == MapData([name |-> Str(id), iteration |-> Num(n)])

\* variant: the loop stops one iteration before the budget is used up
Continues_one_short(max, n, b) == b = "continue" /\ n < max - 1

\* the loop condition after iteration n ended with b: TRUE when the loop
\* goes on to iteration n + 1
Continues(max, n, b) == b = "continue" /\ n < max

\* variant: the data carries the output of the first iteration
IterativeData_first_output(id, n) ==
    MapData([iterations |-> Num(n), result |-> IterationOutput(id, 1)])

\* the data of the result: the iterations performed and the last output
IterativeData(id, n) ==
    MapData([iterations |-> Num(n), result |-> IterationOutput(id, n)])

\* variant: the constructor stores whatever budget it is given
IterativeInstruction_init_unchecked(id, n) ==
    /\ Configuring
    /\ id = root
    /\ max_iterations[id] = 0
    /\ max_iterations' = [max_iterations EXCEPT ![id] = n]
    /\ ret' = [ret EXCEPT ![0] = NoRet]
    /\ UNCHANGED <<root, validation_rules, instructions, conditions,
                   adaptation_rules, modifications, status, stack, context,
                   logs,
                   previous, agents, calls>>

\* IterativeInstruction.__init__(name, description, max_iterations=n)
IterativeInstruction_init(id, n) ==
    /\ Configuring
    /\ id = root
    /\ max_iterations[id] = 0
    /\ IF n > 0
       THEN /\ max_iterations' = [max_iterations EXCEPT ![id] = n]
            /\ ret' = [ret EXCEPT ![0] = NoRet]
       ELSE /\ ret' = [ret EXCEPT ![0] =
                          [kind |-> "raise",
                           msg |-> <<"max_iterations must be positive">>]]
            /\ UNCHANGED max_iterations
    /\ UNCHANGED <<root, validation_rules, instructions, conditions,
                   adaptation_rules, modifications, status, stack, context,
                   logs,
                   previous, agents, calls>>

\* the caller awaits execute(ctx) on the instance it has constructed
IterativeExecute(id, ctx) ==
    /\ id \in Iteratives
    /\ max_iterations[id] > 0
    /\ Execute(id, ctx)

\* IterativeInstruction._execute_impl: iteration Top(t).i of the loop, in
\* which the body does b
IterativeStep(t, b) ==
    /\ stack[t] # <<>>
    /\ Top(t).pc = "body"
    /\ Top(t).id \in Iteratives
    /\ LET id == Top(t).id
           n == Top(t).i
           events == (IF n = 1 THEN <<Event("impl", id, context)>> ELSE <<>>)
                        \o <<Event("iteration", id, [n |-> n, does |-> b])>>
       IN IF b = "raise"
          THEN FinishBody(t, Raised(<<"iteration failed">>), events)
          ELSE IF Continues(max_iterations[id], n, b)
          THEN /\ stack' = [stack EXCEPT ![t] =
                  SetTop(t, [Top(t) EXCEPT
                      !.i = n + 1,
                      !.results = Append(@, IterationOutput(id, n))])]
               /\ logs' = [logs EXCEPT ![t] = @ \o events]
               /\ UNCHANGED <<status, ret>>
          ELSE FinishBody(t, Returned(IterativeData(id, n)), events)
    /\ UNCHANGED <<config, context>>

(***************************************************************************)
(* AdaptiveInstruction (agentflow/core/instructions/advanced.py): the body *)
(* runs the inner behaviour and then applies every adaptation rule in      *)
(* order; what the rules return is accumulated and merged into the         *)
(* starting context of the later calls.                                    *)
(***************************************************************************)
\* the adaptation rules of the tests, by the modifications they return
AdaptationKinds == {"modified", "reset"}

Modification(rule) ==
    IF rule = "modified" THEN [modified |-> Str("true")]
    ELSE [modified |-> Str("false"), tuned |-> Str("true")]

\* the modifications accumulated after the rules k.. have been applied to m
RECURSIVE ApplyRules(_, _, _)
ApplyRules(rules, k, m) ==
    IF k > Len(rules) THEN m
    ELSE ApplyRules(rules, k + 1, DictUpdate(m, Modification(rules[k])))

\* the context the inner behaviour of a call starts from
StartingContext(ctx, m) == DictUpdate(ctx, m)

\* what the inner behaviour returns when it starts from the context start
InnerData(id, start) ==
    MapData([name |-> Str(id),
             adapted |-> IF "modified" \in DOMAIN start
                         THEN start.modified ELSE Str("false")])

\* AdaptiveInstruction.add_adaptation_rule
add_adaptation_rule(id, rule) ==
    /\ Configuring
    /\ id = root
    /\ id \in Adaptives
    /\ Len(adaptation_rules[id]) < MaxConfig
    /\ adaptation_rules' = [adaptation_rules EXCEPT ![id] = Append(@, rule)]
    /\ UNCHANGED <<root, validation_rules, instructions, conditions,
                   max_iterations, modifications, status, stack, context,
                   ret, logs,
                   previous, agents, calls>>

\* the caller awaits execute(ctx) on the adaptive instruction
AdaptiveExecute(id, ctx) ==
    /\ id \in Adaptives
    /\ Execute(id, ctx)

\* AdaptiveInstruction._execute_impl: the inner behaviour runs and returns
\* (b = "return") or raises
AdaptiveInner(t, b) ==
    /\ stack[t] # <<>>
    /\ Top(t).pc = "body"
    /\ Top(t).id \in Adaptives
    /\ LET id == Top(t).id
           start == StartingContext(context, modifications[id])
           events == <<Event("impl", id, context), Event("inner", id, start)>>
       IN IF b = "raise"
          THEN FinishBody(t, Raised(<<"inner behaviour failed">>), events)
          ELSE /\ stack' = [stack EXCEPT ![t] =
                  SetTop(t, [Top(t) EXCEPT
                      !.pc = "adapt",
                      !.results = <<InnerData(id, start)>>])]
               /\ logs' = [logs EXCEPT ![t] = @ \o events]
               /\ UNCHANGED <<status, ret>>
    /\ UNCHANGED <<config, context>>

\* variant: the body returns what the inner behaviour yields on the context
\* the rules of this call have modified
AdaptiveAdapt_affects_result(t) ==
    /\ stack[t] # <<>>
    /\ Top(t).pc = "adapt"
    /\ Top(t).id \in Adaptives
    /\ LET id == Top(t).id
           rules == adaptation_rules[id]
           m == ApplyRules(rules, 1, modifications[id])
       IN /\ modifications' = [modifications EXCEPT ![id] = m]
          /\ FinishBody(t, Returned(InnerData(id, StartingContext(context, m))),
                        [k \in DOMAIN rules |-> Event("adapt", id, k)])
    /\ UNCHANGED <<root, validation_rules, instructions, conditions,
                   max_iterations, adaptation_rules, context,
                   previous, agents, calls>>

\* AdaptiveInstruction._execute_impl: the adaptation rules are applied in
\* order and the body returns what the inner behaviour returned
AdaptiveAdapt(t) ==
    /\ stack[t] # <<>>
    /\ Top(t).pc = "adapt"
    /\ Top(t).id \in Adaptives
    /\ LET id == Top(t).id
           rules == adaptation_rules[id]
       IN /\ modifications' = [modifications EXCEPT
                                  ![id] = ApplyRules(rules, 1, @)]
          /\ FinishBody(t, Returned(Top(t).results[1]),
                        [k \in DOMAIN rules |-> Event("adapt", id, k)])
    /\ UNCHANGED <<root, validation_rules, instructions, conditions,
                   max_iterations, adaptation_rules, context,
                   previous, agents, calls>>

(***************************************************************************)
(* An iterative or an adaptive instruction executed on its own.            *)
(***************************************************************************)
StandaloneInit ==
    /\ root \in Iteratives \cup Adaptives
    /\ Fresh

StandaloneNext ==
    \/ \E id \in Iteratives, n \in Budgets : IterativeInstruction_init(id, n)
    \/ \E id \in Adaptives, rule \in AdaptationKinds :
          add_adaptation_rule(id, rule)
    \/ \E id \in Iteratives, ctx \in Contexts : IterativeExecute(id, ctx)
    \/ \E id \in Adaptives, ctx \in Contexts : AdaptiveExecute(id, ctx)
    \/ Validate(0)
    \/ \E b \in IterationKinds : IterativeStep(0, b)
    \/ \E b \in {"return", "raise"} : AdaptiveInner(0, b)
    \/ AdaptiveAdapt(0)

StandaloneSpec == StandaloneInit /\ [][StandaloneNext]_vars

\* the event loop runs an execute() it has started until it returns
StandaloneFairSpec ==
    /\ StandaloneSpec
    /\ WF_vars(Validate(0))
    /\ WF_vars(\E b \in IterationKinds : IterativeStep(0, b))
    /\ WF_vars(\E b \in {"return", "raise"} : AdaptiveInner(0, b))
    /\ WF_vars(AdaptiveAdapt(0))

(***************************************************************************)
(* The aggregation of SimpleParallelInstruction._execute_impl on its own.  *)
(* asyncio.gather with return_exceptions=True hands back, per launched     *)
(* child, the InstructionResult of its execute() or the exception its      *)
(* invocation raised; the behaviours start when the gather returns.        *)
(***************************************************************************)
\* what the gather can hand back for child id
GatherOutcomes(id) ==
    {execute_body(SimpleInstruction_execute_impl(id)),
     execute_invalid(ValidateFrom(<<"false">>, 1)),
     execute_invalid(ValidateFrom(<<"raise">>, 1)),
     [kind |-> "raise", msg |-> <<"boom in ", id>>]}

GatherInit ==
    /\ root \in Parallels
    /\ validation_rules = [l \in Leaves |-> <<>>]
    /\ \E xs \in ListsOver(Leaves, MaxConfig) :
          /\ xs # <<>>
          /\ instructions = [c \in Holders |-> IF c = root THEN xs ELSE <<>>]
    /\ conditions = [c \in Conditionals |-> <<>>]
    /\ max_iterations = [c \in Iteratives |-> 0]
    /\ adaptation_rules = [c \in Adaptives |-> <<>>]
    /\ modifications = [c \in Adaptives |-> EmptyDict]
    /\ stack = [t \in TaskIds |->
                  IF t = 0 THEN <<[Frame(root) EXCEPT !.pc = "gather"]>>
                  ELSE <<>>]
    /\ context = sample_context
    /\ previous = NoRet
    /\ agents = EmptyDict
    /\ calls = <<>>
    /\ ret \in [TaskIds -> {NoRet} \cup UNION {GatherOutcomes(l) : l \in Leaves}]
    /\ \A t \in TaskIds :
          IF t \in DOMAIN Launched(root)
          THEN ret[t] \in GatherOutcomes(Launched(root)[t])
          ELSE ret[t] = NoRet
    /\ status = [id \in Kinds |->
                   IF id = root THEN "Running"
                   ELSE IF \E t \in DOMAIN Launched(root) :
                              /\ Launched(root)[t] = id
                              /\ ret[t].kind = "result"
                   THEN ret[CHOOSE t \in DOMAIN Launched(root) :
                               Launched(root)[t] = id].result.status
                   ELSE "Pending"]
    /\ logs = [t \in TaskIds |->
                 IF t = 0
                 THEN <<Event("execute", root, sample_context),
                        Event("validate", root, _validate(root)),
                        Event("impl", root, sample_context)>>
                 ELSE <<>>]

GatherNext == ParallelGather

GatherSpec == GatherInit /\ [][GatherNext]_vars

(***************************************************************************)
(* The assembly of an instruction before its first execute(): the calls    *)
(* that configure a leaf, a combinator or an adaptive instruction.         *)
(***************************************************************************)
ConfigInit ==
    /\ root \in Instructions \cup Adaptives
    /\ Fresh

ConfigNext ==
    \/ \E l \in Leaves, rule \in RuleKinds : add_validation_rule(l, rule)
    \/ \E c \in Holders :
          \E xs \in Candidates(c) : set_instructions(c, xs)
    \/ \E c \in Conditionals, condition \in RuleKinds, l \in Leaves :
          add_condition(c, condition, l)
    \/ \E id \in Adaptives, rule \in AdaptationKinds :
          add_adaptation_rule(id, rule)

ConfigSpec == ConfigInit /\ [][ConfigNext]_vars

(***************************************************************************)
(* AgentFactory (agentflow/agents/agent_factory.py) and the calls the      *)
(* tests of test_agent_configuration.py make on it.  The class defines     *)
(* create_agent, get_agent, list_agents, remove_agent, to_dict and         *)
(* from_dict; create_agent is an instance method.                          *)
(***************************************************************************)
AgentTypes == {"research", "data_science", "custom"}

\* the Agent subclasses the tests define, by the type they register them for
AgentClasses ==
    [research |-> "ResearchAgent", data_science |-> "DataScienceAgent",
     custom |-> "CustomAgent"]

\* the configurations of the tests, by AGENT.type
AgentNames ==
    [research |-> "QuantumResearchAgent",
     data_science |-> "FinancialDataAgent", custom |-> "CustomTestAgent"]

AgentConfigOf(T) ==
    [AGENT |-> [type |-> T, name |-> AgentNames[T], mode |-> "sequential"]]

AgentConfigs == {AgentConfigOf(T) : T \in AgentTypes}

\* Agent(config=config): an object of class Agent; its id is fresh
Agent_init(cfg, id) ==
    [class |-> "Agent", id |-> id, name |-> cfg.AGENT.name,
     type |-> cfg.AGENT.type, mode |-> cfg.AGENT.mode]

Called(op, arg, outcome) == [op |-> op, arg |-> arg, outcome |-> outcome]

\* the other state is left alone by the calls on the factory
FactoryFrame ==
    UNCHANGED <<root, validation_rules, instructions, conditions,
                max_iterations, adaptation_rules, modifications, status,
                stack, context, ret, logs, previous>>

\* AgentFactory.register_agent(T, C): the class has no such attribute
register_agent(T, C) ==
    /\ Len(calls) < MaxCalls
    /\ calls' = Append(calls,
          Called("register_agent", [type |-> T, class |-> C],
                 Raised(<<"AttributeError", "register_agent">>)))
    /\ UNCHANGED agents
    /\ FactoryFrame

\* AgentFactory.create_agent(cfg), called on the class as the tests do: cfg
\* is bound to self and config is missing
create_agent_on_class(cfg) ==
    /\ Len(calls) < MaxCalls
    /\ calls' = Append(calls,
          Called("create_agent", [config |-> cfg, on |-> "class"],
                 Raised(<<"TypeError",
                          "missing 1 required positional argument: 'config'">>)))
    /\ UNCHANGED agents
    /\ FactoryFrame

\* variant: the agent is returned without being put into self.agents
create_agent_forgets(cfg) ==
    /\ Len(calls) < MaxCalls
    /\ LET agent == Agent_init(cfg, Len(calls) + 1)
       IN calls' = Append(calls,
             Called("create_agent", [config |-> cfg, on |-> "instance"],
                    Returned(agent)))
    /\ UNCHANGED agents
    /\ FactoryFrame

\* factory.create_agent(cfg) on an instance of AgentFactory
create_agent(cfg) ==
    /\ Len(calls) < MaxCalls
    /\ LET agent == Agent_init(cfg, Len(calls) + 1)
       IN /\ agents' = DictUpdate(agents, [k \in {agent.id} |-> agent])
          /\ calls' = Append(calls,
                Called("create_agent", [config |-> cfg, on |-> "instance"],
                       Returned(agent)))
    /\ FactoryFrame

\* factory.get_agent(agent_id)
get_agent(agent_id) ==
    /\ Len(calls) < MaxCalls
    /\ calls' = Append(calls,
          Called("get_agent", [agent_id |-> agent_id],
                 IF agent_id \in DOMAIN agents
                 THEN Returned(agents[agent_id]) ELSE Returned(None)))
    /\ UNCHANGED agents
    /\ FactoryFrame

\* the keys of the dictionary d from k on, in insertion order: the agents
\* are inserted in the order of their ids
RECURSIVE KeysFrom(_, _)
KeysFrom(d, k) ==
    IF k > MaxCalls + 1 THEN <<>>
    ELSE IF k \in DOMAIN d THEN <<k>> \o KeysFrom(d, k + 1)
    ELSE KeysFrom(d, k + 1)

\* factory.list_agents()
list_agents ==
    /\ Len(calls) < MaxCalls
    /\ calls' = Append(calls,
          Called("list_agents", EmptyDict,
                 Returned(ListData(KeysFrom(agents, 1)))))
    /\ UNCHANGED agents
    /\ FactoryFrame

\* variant: del self.agents[agent_id] without the membership test
remove_agent_unguarded(agent_id) ==
    /\ Len(calls) < MaxCalls
    /\ agents' = IF agent_id \in DOMAIN agents
                 THEN [k \in DOMAIN agents \ {agent_id} |-> agents[k]]
                 ELSE agents
    /\ calls' = Append(calls,
          Called("remove_agent", [agent_id |-> agent_id],
                 IF agent_id \in DOMAIN agents
                 THEN Returned(None) ELSE Raised(<<"KeyError">>)))
    /\ FactoryFrame

\* factory.remove_agent(agent_id)
remove_agent(agent_id) ==
    /\ Len(calls) < MaxCalls
    /\ agents' = IF agent_id \in DOMAIN agents
                 THEN [k \in DOMAIN agents \ {agent_id} |-> agents[k]]
                 ELSE agents
    /\ calls' = Append(calls,
          Called("remove_agent", [agent_id |-> agent_id], Returned(None)))
    /\ FactoryFrame

\* no instruction is executed while the factory is exercised
FactoryInit ==
    /\ root = "part1"
    /\ Fresh

FactoryNext ==
    \/ \E T \in AgentTypes : register_agent(T, AgentClasses[T])
    \/ \E cfg \in AgentConfigs : create_agent_on_class(cfg)
    \/ \E cfg \in AgentConfigs : create_agent(cfg)
    \/ \E agent_id \in 1..MaxCalls : get_agent(agent_id)
    \/ \E agent_id \in 1..MaxCalls : remove_agent(agent_id)
    \/ list_agents

FactorySpec == FactoryInit /\ [][FactoryNext]_vars

(***************************************************************************)
(* Properties.                                                             *)
(***************************************************************************)
Terminal == {"Completed", "Failed"}

\* the events of the current call: those of the caller's task, then those
\* of each task of the gather
RECURSIVE LogFrom(_)
LogFrom(t) ==
    IF t > LaunchLimit THEN <<>> ELSE logs[t] \o LogFrom(t + 1)

log == LogFrom(0)

\* the outermost execute() of the run has ended
Ended == Idle /\ log # <<>>

\* an execute() invocation of id has started and has not returned
OnStack(id) ==
    \E t \in TaskIds :
       \E k \in DOMAIN stack[t] :
          stack[t][k].id = id /\ stack[t][k].pc # "new"

\* positions of the events op of instruction id in the current call
EventsOf(op, id) == {k \in DOMAIN log : log[k].op = op /\ log[k].id = id}

\* an awaited rule that returned false or raised
BlockingRule(k) ==
    /\ log[k].op = "rule"
    /\ validation_rules[log[k].id][log[k].arg] # "true"

(* C1: no execute() invocation, of a leaf or of a combinator, raises to   *)
(* its caller: whatever a rule, a condition, a body or a child did, the    *)
(* invocation hands back a result whose status is Completed or Failed.     *)
C1_ExecuteNeverRaises ==
    /\ \A t \in TaskIds : ret[t].kind # "raise"
    /\ \A k \in DOMAIN log :
          log[k].op = "return" =>
             /\ log[k].arg.kind = "result"
             /\ log[k].arg.result.status \in Terminal

\* a composite ended after a rule of a child raised and its own body raised
C1_Witness ==
    /\ Ended
    /\ root \in Composites
    /\ ret[0].kind = "result"
    /\ ret[0].result.status = "Failed"
    /\ \E k \in DOMAIN log :
          /\ log[k].op = "rule"
          /\ validation_rules[log[k].id][log[k].arg] = "raise"
    /\ \E k \in DOMAIN log :
          /\ log[k].op = "body"
          /\ log[k].id = root
          /\ log[k].arg.kind = "raise"

(* C2: every result execute() hands back has data exactly when its status *)
(* is Completed and error exactly when its status is Failed.               *)
C2_DataXorError ==
    \A k \in DOMAIN log :
       (log[k].op = "return" /\ log[k].arg.kind = "result") =>
          LET r == log[k].arg.result
          IN /\ (r.data # None) <=> (r.status = "Completed")
             /\ (r.error # None) <=> (r.status = "Failed")

\* a conditional completed around a leaf, and a leaf failed its validation
C2_Witness ==
    /\ Ended
    /\ \E k \in DOMAIN log :
          /\ log[k].op = "return"
          /\ log[k].id \in Leaves
          /\ log[k].arg.result.status = "Completed"
          /\ log[k].arg.result.data.tag = "map"
    /\ \E k \in DOMAIN log :
          /\ log[k].op = "return"
          /\ log[k].arg.result.status = "Failed"
          /\ log[k].arg.result.error.tag = "err"

(* C3: an instruction is Pending until it is executed, Running exactly    *)
(* while one of its execute() invocations is active, and Completed or      *)
(* Failed, as the result says, once the invocation has returned; a         *)
(* terminal status does not block the next execute().                      *)
C3_StatusLifecycle ==
    /\ Configuring => \A id \in Instructions : status[id] = "Pending"
    /\ \A id \in Instructions : (status[id] = "Running") <=> OnStack(id)
    /\ \A k \in DOMAIN log :
          log[k].op = "return" =>
             /\ log[k].arg.kind = "result"
             /\ log[k].arg.result.status \in Terminal
             /\ status[log[k].id] = log[k].arg.result.status
    /\ Ended => /\ status[root] \in Terminal
                /\ ENABLED Execute(root, sample_context)

\* a second execute() of a composite is Running while the status of a child
\* is still the terminal one of the first call
C3_Witness ==
    /\ Len(log) = 1
    /\ Len(stack[0]) = 1
    /\ Top(0).id \in Composites
    /\ status[Top(0).id] = "Running"
    /\ \E c \in Range(instructions[Top(0).id]) : status[c] \in Terminal

(* C4: when the body hook raises, execute() returns Failed with the       *)
(* raised failure's message as error, to the caller of execute().          *)
C4_BodyRaiseBecomesFailed ==
    \A k \in DOMAIN log :
       (log[k].op = "body" /\ log[k].arg.kind = "raise") =>
          /\ k + 1 \in DOMAIN log
          /\ log[k + 1].op = "return"
          /\ log[k + 1].id = log[k].id
          /\ log[k + 1].arg.kind = "result"
          /\ log[k + 1].arg.result.status = "Failed"
          /\ log[k + 1].arg.result.error = Err(log[k].arg.msg)

\* the composite of test_execution_order: the body raised at part1
C4_Witness ==
    /\ Ended
    /\ root = "composite"
    /\ instructions["composite"] = <<"part1", "part2">>
    /\ ret[0].kind = "result"
    /\ ret[0].result.error =
          Err(<<"Error in ", "part1", ": ", "Simulated error in part1">>)

(* C5: when validation passed and the body hook returned, execute()       *)
(* returns Completed with the returned value as data.                      *)
C5_BodyReturnBecomesCompleted ==
    \A k \in DOMAIN log :
       (log[k].op = "body" /\ log[k].arg.kind = "return") =>
          /\ k + 1 \in DOMAIN log
          /\ log[k + 1].op = "return"
          /\ log[k + 1].id = log[k].id
          /\ log[k + 1].arg.kind = "result"
          /\ log[k + 1].arg.result.status = "Completed"
          /\ log[k + 1].arg.result.data = log[k].arg.value
          /\ \E j \in EventsOf("validate", log[k].id) :
                j < k /\ log[j].arg.is_valid

\* a leaf with a passing rule completed with the mapping of its body
C5_Witness ==
    /\ Ended
    /\ root = "part2"
    /\ Len(validation_rules["part2"]) > 0
    /\ ret[0].kind = "result"
    /\ ret[0].result.status = "Completed"
    /\ ret[0].result.data =
          MapData([name |-> Str("part2"), result |-> Str("success")])

(* C6: for an Advanced Instruction, when a validation rule returns false  *)
(* or raises, execute() returns Failed with the error built from the       *)
(* violations, and the body hook is not invoked in that call.              *)
C6_InvalidSkipsBody ==
    \A k \in DOMAIN log :
       BlockingRule(k) =>
          /\ EventsOf("impl", log[k].id) = {}
          /\ EventsOf("body", log[k].id) = {}
          /\ k + 2 \in DOMAIN log
          /\ log[k + 1].op = "validate"
          /\ log[k + 1].id = log[k].id
          /\ ~log[k + 1].arg.is_valid
          /\ log[k + 1].arg.violations # <<>>
          /\ log[k + 2].op = "return"
          /\ log[k + 2].id = log[k].id
          /\ log[k + 2].arg.kind = "result"
          /\ log[k + 2].arg.result.status = "Failed"
          /\ log[k + 2].arg.result.error =
                Err(JoinViolations(log[k + 1].arg.violations))

\* a leaf whose second rule returned false has failed without running its body
C6_Witness ==
    /\ Ended
    /\ root \in Leaves
    /\ \E k \in DOMAIN log :
          /\ BlockingRule(k)
          /\ log[k].arg = 2
          /\ validation_rules[log[k].id][2] = "false"
    /\ ret[0].kind = "result"
    /\ ret[0].result.error = Err(<<"Failed validation rule">>)

(* C7: a validation rule that raises makes _validate return is_valid =    *)
(* false with one violation that describes the raised error; nothing is    *)
(* raised out of _validate or out of execute().                            *)
C7_RaisingRuleIsViolation ==
    \A k \in DOMAIN log :
       (log[k].op = "rule"
           /\ validation_rules[log[k].id][log[k].arg] = "raise") =>
          /\ k + 2 \in DOMAIN log
          /\ log[k + 1].op = "validate"
          /\ log[k + 1].id = log[k].id
          /\ log[k + 1].arg.is_valid = FALSE
          /\ log[k + 1].arg.violations =
                << <<"Error in validation: ">> \o RuleError >>
          /\ log[k + 2].op = "return"
          /\ log[k + 2].id = log[k].id
          /\ log[k + 2].arg.kind = "result"

\* a leaf whose rule raised has handed back a result
C7_Witness ==
    /\ Ended
    /\ root \in Leaves
    /\ validation_rules[root] # <<>>
    /\ validation_rules[root][1] = "raise"
    /\ ret[0].kind = "result"
    /\ ret[0].result.error = Err(<<"Error in validation: ">> \o RuleError)

(* C8: in every ValidationResult of a validation pass, violations being  *)
(* non-empty implies is_valid = false, and is_valid = true implies that    *)
(* violations is empty.                                                    *)
C8_ValidationResultInvariant ==
    \A k \in DOMAIN log :
       log[k].op = "validate" =>
          /\ log[k].arg.violations # <<>> => ~log[k].arg.is_valid
          /\ log[k].arg.is_valid => log[k].arg.violations = <<>>

\* one call has seen a pass succeed, and the pass of a leaf fail at its
\* second rule with one violation
C8_Witness ==
    /\ \E k \in DOMAIN log :
          /\ log[k].op = "validate"
          /\ log[k].arg.is_valid
          /\ log[k].arg.violations = <<>>
    /\ \E k \in DOMAIN log :
          /\ log[k].op = "validate"
          /\ log[k].id \in Leaves
          /\ Len(validation_rules[log[k].id]) = 2
          /\ ~log[k].arg.is_valid
          /\ Len(log[k].arg.violations) = 1

\* child k of composite c ended in failure: its execute() handed back
\* Failed (or raised), or the loop raised when it came to invoke it
ChildFailed(c, k) ==
    LET id == instructions[c][k]
    IN \/ \E j \in EventsOf("return", id) :
             \/ log[j].arg.kind = "raise"
             \/ log[j].arg.result.status = "Failed"
       \/ /\ id = "part1"
          /\ \E j \in EventsOf("body", c) :
                log[j].arg = ErrorIn(id, <<"Simulated error in part1">>)

(* C9: a composite is fail-fast: once child k has yielded Failed or its   *)
(* invocation has raised, no later child of the list is invoked in that    *)
(* call, and the result of the composite is Failed.                        *)
C9_CompositeFailFast ==
    \A c \in Composites :
       \A k \in DOMAIN instructions[c] :
          ChildFailed(c, k) =>
             /\ \A j \in DOMAIN instructions[c] :
                   j > k =>
                      /\ EventsOf("execute", instructions[c][j]) = {}
                      /\ EventsOf("impl", instructions[c][j]) = {}
             /\ \A r \in EventsOf("return", c) :
                   /\ log[r].arg.kind = "result"
                   /\ log[r].arg.result.status = "Failed"

\* the first child returned Failed from its validation, the second one was
\* never invoked and the composite has failed
C9_Witness ==
    /\ Ended
    /\ root \in Composites
    /\ Len(instructions[root]) >= 2
    /\ instructions[root][1] # "part1"
    /\ \E j \in EventsOf("return", instructions[root][1]) :
          log[j].arg.result.status = "Failed"
    /\ EventsOf("execute", instructions[root][2]) = {}
    /\ ret[0].kind = "result"
    /\ ret[0].result.status = "Failed"

\* every child of composite c was invoked and handed back Completed
AllSucceeded(c) ==
    \A k \in DOMAIN instructions[c] :
       \E j \in EventsOf("return", instructions[c][k]) :
          /\ log[j].arg.kind = "result"
          /\ log[j].arg.result.status = "Completed"

\* child k of c is invoked with the keys of the data of the children before
ObservesEarlier(c, k) ==
    \A e \in EventsOf("execute", instructions[c][k]) :
       \A j \in 1..(k - 1) :
          \A r \in EventsOf("return", instructions[c][j]) :
             (log[r].arg.kind = "result"
                 /\ log[r].arg.result.data.tag = "map") =>
                \A key \in DOMAIN log[r].arg.result.data.map :
                   /\ key \in DOMAIN log[e].arg
                   /\ IF \E j2 \in (j + 1)..(k - 1) :
                            \E r2 \in EventsOf("return", instructions[c][j2]) :
                               /\ log[r2].arg.result.data.tag = "map"
                               /\ key \in DOMAIN log[r2].arg.result.data.map
                      THEN TRUE
                      ELSE log[e].arg[key] = log[r].arg.result.data.map[key]

(* C10: a composite threads the context: when all its children succeed    *)
(* its result is Completed, and every child is executed with a context     *)
(* that holds the data keys of all the children before it.                 *)
C10_CompositeThreadsContext ==
    \A c \in Composites :
       /\ AllSucceeded(c) =>
             \A r \in EventsOf("return", c) :
                /\ log[r].arg.kind = "result"
                /\ log[r].arg.result.status = "Completed"
       /\ \A k \in DOMAIN instructions[c] : ObservesEarlier(c, k)

\* the text msg contains the text sub
Contains(msg, sub) ==
    \E i \in 0..(Len(msg) - Len(sub)) :
       SubSeq(msg, i + 1, i + Len(sub)) = sub

\* the error text of the result event r
ErrorOf(r) == log[r].arg.result.error

(* C11: when a composite fails because child ck yielded Failed or         *)
(* raised, the error text of the composite names ck and contains the       *)
(* error message of ck itself.                                             *)
C11_CompositeErrorNamesChild ==
    \A c \in Composites :
       \A k \in DOMAIN instructions[c] :
          \A r \in EventsOf("return", c) :
             /\ \A j \in EventsOf("return", instructions[c][k]) :
                   (log[j].arg.kind = "result"
                       /\ log[j].arg.result.status = "Failed") =>
                      /\ log[r].arg.kind = "result"
                      /\ log[r].arg.result.status = "Failed"
                      /\ Contains(ErrorOf(r).msg, <<instructions[c][k]>>)
                      /\ Contains(ErrorOf(r).msg, ErrorOf(j).msg)
             /\ (\E b \in EventsOf("body", c) :
                    log[b].arg = ErrorIn(instructions[c][k],
                                         <<"Simulated error in part1">>)) =>
                   /\ log[r].arg.kind = "result"
                   /\ log[r].arg.result.status = "Failed"
                   /\ Contains(ErrorOf(r).msg, <<instructions[c][k]>>)
                   /\ Contains(ErrorOf(r).msg,
                               <<"Simulated error in part1">>)

(* C12: a composite of two leaves, where the first one validates and      *)
(* succeeds and the validation of the second one fails at a rule, ends     *)
(* Failed with an error that mentions the name of the second leaf.         *)
C12_TwoLeavesSecondInvalid ==
    \A c \in Composites :
       (/\ Len(instructions[c]) = 2
        /\ Range(instructions[c]) \subseteq Leaves
        /\ ~_validate(instructions[c][2]).is_valid
        /\ \E j \in EventsOf("return", instructions[c][1]) :
              /\ log[j].arg.kind = "result"
              /\ log[j].arg.result.status = "Completed") =>
          \A r \in EventsOf("return", c) :
             /\ log[r].arg.kind = "result"
             /\ log[r].arg.result.status = "Failed"
             /\ Contains(ErrorOf(r).msg, <<instructions[c][2]>>)

\* part2 completed, the rule of the second leaf returned false, the leaf
\* returned Failed and the composite has failed
C12_Witness ==
    /\ Ended
    /\ root \in Composites
    /\ instructions[root] = <<"part2", "then">>
    /\ validation_rules["then"] = <<"false">>
    /\ \E j \in EventsOf("return", "part2") :
          log[j].arg.result.status = "Completed"
    /\ \E j \in EventsOf("return", "then") :
          /\ log[j].arg.kind = "result"
          /\ log[j].arg.result.status = "Failed"
    /\ ret[0].kind = "result"
    /\ ret[0].result.status = "Failed"

\* positions of the events of the branch instructions of conditional c
BranchExecutions(c) ==
    {k \in DOMAIN log :
        /\ log[k].op = "execute"
        /\ \E j \in DOMAIN conditions[c] :
              conditions[c][j].instruction = log[k].id}

(* C13: a conditional is first-match-wins: the predicates are evaluated   *)
(* in registration order, the branch executed is the one paired with the   *)
(* first predicate that returns true, the branches of the earlier          *)
(* predicates are not executed, and the result is Completed with data      *)
(* {"result": <data of that branch>}.                                      *)
C13_ConditionalFirstMatch ==
    \A c \in Conditionals :
       \A h \in DOMAIN conditions[c] :
          (/\ conditions[c][h].condition = "true"
           /\ \A j \in 1..(h - 1) : conditions[c][j].condition = "false"
           /\ EventsOf("return", c) # {}) =>
             /\ {log[k].arg : k \in EventsOf("condition", c)} = 1..h
             /\ \A a, b \in EventsOf("condition", c) :
                   a < b => log[a].arg < log[b].arg
             /\ \A k \in BranchExecutions(c) :
                   log[k].id = conditions[c][h].instruction
             /\ \A r \in EventsOf("return", c) :
                   \E j \in EventsOf("return", conditions[c][h].instruction) :
                      /\ j < r
                      /\ log[r].arg.kind = "result"
                      /\ log[r].arg.result.status = "Completed"
                      /\ log[r].arg.result.data =
                            MapData([result |-> log[j].arg.result.data])

\* predicates [false, true] paired with [part1, part2]: part2 ran, part1 did
\* not, and the conditional completed with the data of part2 under "result"
C13_Witness ==
    /\ Ended
    /\ root \in Conditionals
    /\ conditions[root] =
          <<[condition |-> "false", instruction |-> "part1"],
            [condition |-> "true", instruction |-> "part2"]>>
    /\ EventsOf("execute", "part1") = {}
    /\ EventsOf("execute", "part2") # {}
    /\ ret[0].kind = "result"
    /\ ret[0].result.status = "Completed"
    /\ ret[0].result.data =
          MapData([result |->
                     MapData([name |-> Str("part2"),
                              result |-> Str("success")])])

(* C14: in one execute() call of a conditional at most one branch         *)
(* instruction is executed, whatever the list of (predicate, instruction)  *)
(* pairs, also when several predicates return true.                        *)
C14_AtMostOneBranch ==
    \A c \in Conditionals : Cardinality(BranchExecutions(c)) <= 1

\* two predicates return true for two different branches; the call ended
\* with one branch executed
C14_Witness ==
    /\ Ended
    /\ \E c \in Conditionals :
          /\ Len(conditions[c]) >= 2
          /\ conditions[c][1].condition = "true"
          /\ conditions[c][2].condition = "true"
          /\ conditions[c][1].instruction # conditions[c][2].instruction
          /\ EventsOf("return", c) # {}
          /\ Cardinality(BranchExecutions(c)) = 1

(* C15: when every predicate of a conditional returns false, or no         *)
(* condition is registered, execute() returns Failed with the error "No    *)
(* matching condition found" and no branch is executed.                    *)
C15_NoMatchFails ==
    \A c \in Conditionals :
       (\A j \in DOMAIN conditions[c] :
           conditions[c][j].condition = "false") =>
          /\ BranchExecutions(c) = {}
          /\ \A r \in EventsOf("return", c) :
                /\ {log[k].arg : k \in EventsOf("condition", c)}
                      = DOMAIN conditions[c]
                /\ log[r].arg.kind = "result"
                /\ log[r].arg.result.status = "Failed"
                /\ log[r].arg.result.data = None
                /\ ErrorOf(r) = Err(<<"No matching condition found">>)

\* a conditional whose two predicates returned false has failed
C15_Witness ==
    /\ Ended
    /\ root \in Conditionals
    /\ Len(conditions[root]) = 2
    /\ \A j \in DOMAIN conditions[root] :
          conditions[root][j].condition = "false"
    /\ Cardinality(EventsOf("condition", root)) = 2
    /\ ret[0].kind = "result"
    /\ ret[0].result.status = "Failed"

(* C16: when a predicate of a conditional raises, the evaluation aborts:  *)
(* no later predicate is evaluated, no branch is executed, and execute()   *)
(* returns Failed with the error of the predicate.                         *)
C16_RaisingPredicateAborts ==
    \A c \in Conditionals :
       \A h \in DOMAIN conditions[c] :
          (/\ conditions[c][h].condition = "raise"
           /\ \A j \in 1..(h - 1) : conditions[c][j].condition = "false") =>
             /\ BranchExecutions(c) = {}
             /\ \A k \in EventsOf("condition", c) : log[k].arg <= h
             /\ \A r \in EventsOf("return", c) :
                   /\ {log[k].arg : k \in EventsOf("condition", c)} = 1..h
                   /\ log[r].arg.kind = "result"
                   /\ log[r].arg.result.status = "Failed"
                   /\ ErrorOf(r) = Err(RuleError)

\* the first predicate raised, the second one would have returned true: it
\* was not evaluated and the conditional has failed
C16_Witness ==
    /\ Ended
    /\ root \in Conditionals
    /\ Len(conditions[root]) = 2
    /\ conditions[root][1].condition = "raise"
    /\ conditions[root][2].condition = "true"
    /\ Cardinality(EventsOf("condition", root)) = 1
    /\ ret[0].kind = "result"
    /\ ret[0].result.status = "Failed"
    /\ ret[0].result.error = Err(RuleError)

(* C17: when the branch a conditional selected yields a Failed result,     *)
(* the result of the conditional is Failed and wraps the failure of the    *)
(* branch; it is never Completed with the absent data of the branch.       *)
C17_FailedBranchFailsConditional ==
    \A c \in Conditionals :
       \A r \in EventsOf("return", c) :
          \A k \in BranchExecutions(c) :
             \A j \in EventsOf("return", log[k].id) :
                (log[j].arg.kind = "result"
                    /\ log[j].arg.result.status = "Failed") =>
                   /\ log[r].arg.kind = "result"
                   /\ log[r].arg.result.status = "Failed"
                   /\ Contains(ErrorOf(r).msg, ErrorOf(j).msg)

\* launched child k of parallel p has handed back a result with status st
LaunchedEnded(p, k, st) ==
    \E j \in EventsOf("return", Launched(p)[k]) :
       /\ log[j].arg.kind = "result"
       /\ log[j].arg.result.status = st

\* the invocation of launched child k of parallel p has raised
LaunchedRaised(p, k) ==
    \E j \in EventsOf("return", Launched(p)[k]) : log[j].arg.kind = "raise"

(* C18: a parallel fails on any child failure: when a launched child       *)
(* returned Failed or its invocation raised, the result of the parallel    *)
(* is Failed; it is Completed only when every launched child returned      *)
(* Completed.                                                              *)
C18_ParallelFailsOnChildFailure ==
    \A p \in Parallels :
       \A r \in EventsOf("return", p) :
          /\ log[r].arg.kind = "result"
          /\ (\E k \in DOMAIN Launched(p) :
                 LaunchedEnded(p, k, "Failed") \/ LaunchedRaised(p, k)) =>
                log[r].arg.result.status = "Failed"
          /\ log[r].arg.result.status = "Completed" =>
                \A k \in DOMAIN Launched(p) : LaunchedEnded(p, k, "Completed")

(* C19: a parallel is wait-for-all: its execute() does not return before   *)
(* every launched child has reached a terminal state, and a child that     *)
(* fails does not cancel a sibling: with children [A (success),            *)
(* B (failure)] both have run to completion when the parallel returns.     *)
C19_ParallelWaitsForAll ==
    \A p \in Parallels :
       \A r \in EventsOf("return", p) :
          \A k \in DOMAIN Launched(p) :
             /\ ~OnStack(Launched(p)[k])
             /\ status[Launched(p)[k]] \in Terminal
             /\ \E j \in EventsOf("return", Launched(p)[k]) :
                   /\ log[j].arg.kind = "result"
                   /\ log[j].arg.result.status \in Terminal

\* children [part2 (success), then (failure)]: both have returned, one
\* Completed and one Failed, and the parallel has returned
C19_Witness ==
    /\ Ended
    /\ root \in Parallels
    /\ instructions[root] = <<"part2", "then">>
    /\ LaunchedEnded(root, 1, "Completed")
    /\ LaunchedEnded(root, 2, "Failed")
    /\ EventsOf("body", "part2") # {}
    /\ ret[0].kind = "result"

\* the outcome the gather handed back for launched child t is a failure
GatheredFailure(t) ==
    \/ ret[t].kind = "raise"
    \/ ret[t].kind = "result" /\ ret[t].result.status = "Failed"

\* the message of the failure the gather handed back for launched child t
GatheredMessage(t) ==
    IF ret[t].kind = "raise" THEN ret[t].msg ELSE ret[t].result.error.msg

ParallelChildFailed(p, k) ==
    \E j \in EventsOf("return", instructions[p][k]) :
       \/ log[j].arg.kind = "raise"
       \/ log[j].arg.result.status = "Failed"

(* C21: when no child of a parallel fails, the result is Completed with    *)
(* data {"results": r} where r has one entry per child of the instruction  *)
(* and r[i] is the data of the i-th child, in launch order, whatever the   *)
(* order in which the children complete.                                   *)
C21_ParallelResultsPerChild ==
    \A p \in Parallels :
       \A r \in EventsOf("return", p) :
          (\A k \in DOMAIN instructions[p] : ~ParallelChildFailed(p, k)) =>
             /\ log[r].arg.kind = "result"
             /\ log[r].arg.result.status = "Completed"
             /\ log[r].arg.result.data.tag = "map"
             /\ DOMAIN log[r].arg.result.data.map = {"results"}
             /\ LET rs == log[r].arg.result.data.map.results.items
                IN /\ Len(rs) = Len(instructions[p])
                   /\ \A i \in DOMAIN rs :
                         \E j \in EventsOf("return", instructions[p][i]) :
                            rs[i] = log[j].arg.result.data

(* C22: the children of a parallel are isolated from each other's context  *)
(* mutations: each launched child observes the context as it was at        *)
(* fan-out time, so a key a running child wrote to the context is not      *)
(* observed by a sibling.                                                  *)
C22_ParallelChildrenIsolated ==
    \A p \in Parallels :
       \A f \in EventsOf("impl", p) :
          \A k \in DOMAIN Launched(p) :
             \A e \in EventsOf("execute", Launched(p)[k]) :
                log[e].arg = log[f].arg

\* positions of the events that start a child of combinator c
ChildExecutions(c) ==
    {k \in DOMAIN log : log[k].op = "execute" /\ log[k].id \in Kids(c)}

(* C23: a composite and a conditional execute their children strictly      *)
(* sequentially: at no moment are two children of one such combinator      *)
(* Running, and a child's execute() starts only after the execute() of the *)
(* child started before it has returned.                                   *)
C23_SequentialChildren ==
    \A c \in Composites \cup Conditionals :
       /\ Cardinality({k \in Kids(c) : status[k] = "Running"}) <= 1
       /\ \A e1, e2 \in ChildExecutions(c) :
             e1 < e2 =>
                \E r \in EventsOf("return", log[e1].id) : e1 < r /\ r < e2

\* a composite has run its two children one after the other
C23_Witness ==
    /\ Ended
    /\ root \in Composites
    /\ Len(instructions[root]) = 2
    /\ Cardinality(ChildExecutions(root)) = 2
    /\ \A k \in DOMAIN instructions[root] :
          EventsOf("return", instructions[root][k]) # {}

\* number of times the body of iterative instruction c ran in this call
BodyRuns(c) == Cardinality(EventsOf("iteration", c))

\* in this call the body of c has requested continuation every time
AlwaysContinues(c) ==
    \A k \in EventsOf("iteration", c) : log[k].arg.does = "continue"

\* the body of c never ran more often than the budget allows, and a call
\* that has returned ran it once for a budget of 1 and as often as the
\* budget says when the body always requested continuation
BudgetRespected ==
    \A c \in Iteratives :
       /\ BodyRuns(c) <= max_iterations[c]
       /\ {log[k].arg.n : k \in EventsOf("iteration", c)} = 1..BodyRuns(c)
       /\ EventsOf("return", c) # {} =>
             /\ BodyRuns(c) >= 1
             /\ max_iterations[c] = 1 => BodyRuns(c) = 1
             /\ AlwaysContinues(c) => BodyRuns(c) = max_iterations[c]

(* C24: an iterative instruction respects its iteration budget: in one     *)
(* execute() the body runs at most max_iterations times and the call       *)
(* terminates; with max_iterations = 1 the body runs exactly once whatever *)
(* it reports, and a body that always requests continuation runs exactly   *)
(* max_iterations times.                                                   *)
C24_IterationBudget ==
    /\ []BudgetRespected
    /\ \A c \in Iteratives :
          (status[c] = "Running") ~> (status[c] \in Terminal)

\* a call with the largest budget has returned after the body requested
\* continuation in every iteration
C24_Witness ==
    /\ Ended
    /\ root \in Iteratives
    /\ max_iterations[root] = MaxIterations
    /\ AlwaysContinues(root)
    /\ BodyRuns(root) = MaxIterations
    /\ ret[0].kind = "result"
    /\ ret[0].result.status = "Completed"

(* C25: the data of a Completed result of an iterative instruction holds   *)
(* the number of iterations performed, which is the number of times the    *)
(* body ran in that call, and the output of the last iteration performed.  *)
C25_IterativeDataExposesCount ==
    \A c \in Iteratives :
       \A r \in EventsOf("return", c) :
          (log[r].arg.kind = "result"
              /\ log[r].arg.result.status = "Completed") =>
             /\ log[r].arg.result.data.tag = "map"
             /\ log[r].arg.result.data.map.iterations = Num(BodyRuns(c))
             /\ log[r].arg.result.data.map.result =
                   IterationOutput(c, BodyRuns(c))

\* the body reported convergence in its second iteration, before the budget
\* was used up
C25_Witness ==
    /\ Ended
    /\ root \in Iteratives
    /\ max_iterations[root] > 2
    /\ BodyRuns(root) = 2
    /\ ~AlwaysContinues(root)
    /\ ret[0].kind = "result"
    /\ ret[0].result.status = "Completed"
    /\ ret[0].result.data.map.iterations = Num(2)

(* C26: an iterative instruction with a non-positive budget is rejected    *)
(* when it is constructed: the constructor raises and no instance with     *)
(* such a budget exists. Nothing else raises: every call of execute() that *)
(* was started runs on a positive budget and hands back a result, and an   *)
(* exception reaches the caller only from the constructor, before any      *)
(* execute().                                                              *)
C26_BudgetRejectedAtConstruction ==
    /\ \A c \in Iteratives :
          /\ max_iterations[c] >= 0
          /\ (status[c] # "Pending" \/ (root = c /\ logs[0] # <<>>)) =>
                max_iterations[c] >= 1
    /\ ret[0].kind = "raise" =>
          /\ Configuring
          /\ root \in Iteratives
          /\ max_iterations[root] = 0
    /\ \A c \in Iteratives \cup Adaptives :
          \A r \in EventsOf("return", c) : log[r].arg.kind = "result"

\* the constructor was called with a non-positive budget and raised
C26_Witness ==
    /\ root \in Iteratives
    /\ ret[0].kind = "raise"
    /\ Contains(ret[0].msg, <<"max_iterations must be positive">>)
    /\ max_iterations[root] = 0

\* the rules of c that set key, by their place in the registration order
Setters(c, key) ==
    {k \in DOMAIN adaptation_rules[c] :
        key \in DOMAIN Modification(adaptation_rules[c][k])}

\* m2 is m1 with the modifications of every rule of c merged in, in
\* registration order: a key holds what the last rule that sets it returned
AccumulatedInOrder(c, m1, m2) ==
    \A key \in {"modified", "tuned"} :
       IF Setters(c, key) = {}
       THEN /\ (key \in DOMAIN m2) = (key \in DOMAIN m1)
            /\ key \in DOMAIN m1 => m2[key] = m1[key]
       ELSE LET last == CHOOSE k \in Setters(c, key) :
                           \A j \in Setters(c, key) : j <= k
            IN /\ key \in DOMAIN m2
               /\ m2[key] = Modification(adaptation_rules[c][last])[key]

\* the rules of c were applied one after the other, each once, after the
\* inner behaviour
RulesAppliedInOrder(c) ==
    /\ {log[k].arg : k \in EventsOf("adapt", c)} = DOMAIN adaptation_rules[c]
    /\ \A k \in EventsOf("adapt", c) :
          /\ \A i \in EventsOf("inner", c) : i < k
          /\ \A j \in EventsOf("adapt", c) :
                j < k => log[j].arg < log[k].arg

(* C27: in every call of an adaptive instruction the inner behaviour       *)
(* starts from the context merged with the modifications of the earlier    *)
(* calls; when it has returned, every adaptation rule is applied, in       *)
(* registration order; the result of the call is Completed with the data   *)
(* the inner behaviour produced from that starting context, whatever the   *)
(* rules of this call return, and their modifications are what the next    *)
(* call starts from.                                                       *)
C27_AdaptationAfterInner ==
    [][\A c \in Adaptives :
          /\ (EventsOf("inner", c) = {} /\ EventsOf("inner", c)' # {}) =>
                \A i \in EventsOf("inner", c)' :
                   log'[i].arg = StartingContext(context, modifications[c])
          /\ (status[c] = "Running" /\ status'[c] = "Completed") =>
                /\ RulesAppliedInOrder(c)'
                /\ ret'[0].result.data =
                      InnerData(c, StartingContext(context, modifications[c]))
                /\ AccumulatedInOrder(c, modifications[c], modifications'[c])
          /\ (status'[c] # "Completed" \/ status[c] # "Running") =>
                modifications'[c] = modifications[c]]_vars

\* a later call of an instruction with two rules: its inner behaviour
\* started from what the rules returned in an earlier call
C27_Witness ==
    /\ Ended
    /\ root \in Adaptives
    /\ Len(adaptation_rules[root]) = 2
    /\ Cardinality(EventsOf("adapt", root)) = 2
    /\ \E i \in EventsOf("inner", root) :
          /\ "modified" \in DOMAIN log[i].arg
          /\ log[i].arg.modified = Str("true")
    /\ ret[0].kind = "result"
    /\ ret[0].result.status = "Completed"
    /\ ret[0].result.data = InnerData(root, [modified |-> Str("true")])

DispatchedBy(i, j) ==
    /\ i < j
    /\ calls[i].op = "register_agent"
    /\ calls[j].op = "create_agent"
    /\ calls[j].arg.config.AGENT.type = calls[i].arg.type
    /\ \A k \in (i + 1)..(j - 1) :
          calls[k].op = "register_agent" => calls[k].arg.type # calls[i].arg.type

(* C29: when register_agent(T, C) has been called, a later create_agent    *)
(* with a configuration whose AGENT.type is T returns an agent built by    *)
(* class C whose name, type and mode are those of the configuration,       *)
(* whatever other types were registered in between.                        *)
C29_FactoryDispatch ==
    \A i, j \in DOMAIN calls :
       DispatchedBy(i, j) =>
          /\ calls[j].outcome.kind = "return"
          /\ calls[j].outcome.value.class = calls[i].arg.class
          /\ calls[j].outcome.value.name = calls[j].arg.config.AGENT.name
          /\ calls[j].outcome.value.type = calls[j].arg.config.AGENT.type
          /\ calls[j].outcome.value.mode = calls[j].arg.config.AGENT.mode

\* the violation a rule of kind b leaves in the result of the pass
ViolationOf(b) ==
    IF b = "false" THEN <<"Failed validation rule">>
    ELSE <<"Error in validation: ">> \o RuleError

\* the n events before event p are the pass that p ends: the rules 1..n of
\* the leaf of p, awaited in that order
PassBefore(p, n) ==
    /\ p - n >= 1
    /\ \A k \in 1..n : log[p - n - 1 + k] = Event("rule", log[p].id, k)
    /\ p - n - 1 \in DOMAIN log =>
          ~(log[p - n - 1].op = "rule" /\ log[p - n - 1].id = log[p].id)

(* C30: a validation pass of a leaf awaits its rules in registration       *)
(* order and ends at the first rule that returns false or raises: every    *)
(* rule awaited before it returned true, no rule registered after it is    *)
(* awaited, and the result is invalid with that rule's violation as its    *)
(* only violation. When every rule returns true, all of them are awaited   *)
(* and the result is valid and has no violation.                           *)
C30_ValidationStopsAtFirst ==
    \A p \in DOMAIN log :
       (log[p].op = "validate" /\ log[p].id \in Leaves) =>
          LET rules == validation_rules[log[p].id]
          IN \E n \in 0..Len(rules) :
                /\ PassBefore(p, n)
                /\ \A k \in 1..(n - 1) : rules[k] = "true"
                /\ IF n > 0 /\ rules[n] # "true"
                   THEN /\ ~log[p].arg.is_valid
                        /\ log[p].arg.violations = <<ViolationOf(rules[n])>>
                   ELSE /\ n = Len(rules)
                        /\ log[p].arg.is_valid
                        /\ log[p].arg.violations = <<>>

\* a leaf with three rules whose second rule raised: the third was not
\* awaited
C30_Witness ==
    /\ Ended
    /\ root \in Leaves
    /\ Len(validation_rules[root]) = 3
    /\ validation_rules[root][1] = "true"
    /\ validation_rules[root][2] = "raise"
    /\ {log[k].arg : k \in EventsOf("rule", root)} = {1, 2}
    /\ \E p \in EventsOf("validate", root) :
          /\ ~log[p].arg.is_valid
          /\ Len(log[p].arg.violations) = 1

\* the event that started the invocation whose return event is r
StartOf(r) ==
    CHOOSE s \in 1..(r - 1) :
       /\ log[s].op = "execute"
       /\ log[s].id = log[r].id
       /\ Cardinality({q \in (s + 1)..(r - 1) : log[q].op = "execute"})
             = Cardinality({q \in (s + 1)..(r - 1) : log[q].op = "return"})

\* the return events of the invocations made directly by the invocation
\* that returned at r
DirectReturns(r) ==
    LET s == StartOf(r)
    IN {p \in (s + 1)..(r - 1) :
          /\ log[p].op = "return"
          /\ Cardinality({q \in (s + 1)..(p - 1) : log[q].op = "execute"})
                = Cardinality({q \in (s + 1)..(p - 1) : log[q].op = "return"})
                     + 1}

(* C31: when a composite completes, its data is the list of the results    *)
(* its children handed back, one entry per child of its list, in the order *)
(* of the list.                                                            *)
C31_CompositeDataPerChild ==
    \A c \in Composites :
       \A r \in EventsOf("return", c) :
          (log[r].arg.kind = "result"
              /\ log[r].arg.result.status = "Completed") =>
             LET data == log[r].arg.result.data
                 D == DirectReturns(r)
             IN /\ data.tag = "list"
                /\ Len(data.items) = Len(instructions[c])
                /\ Cardinality(D) = Len(instructions[c])
                /\ \A p \in D :
                      LET k == Cardinality({q \in D : q <= p})
                      IN /\ log[p].id = instructions[c][k]
                         /\ data.items[k] = log[p].arg.result

\* a composite of two different children has completed
C31_Witness ==
    /\ Ended
    /\ root \in Composites
    /\ Len(instructions[root]) = 2
    /\ instructions[root][1] # instructions[root][2]
    /\ ret[0].kind = "result"
    /\ ret[0].result.status = "Completed"
    /\ Len(ret[0].result.data.items) = 2

\* the return event p handed back data that context.update merges
Merges(p) ==
    /\ log[p].arg.kind = "result"
    /\ log[p].arg.result.status = "Completed"
    /\ log[p].arg.result.data.tag = "map"

\* the dictionary d after the data of the return events D that merge has been
\* merged into it, in the order of the events
RECURSIVE MergedInto(_, _)
MergedInto(D, d) ==
    IF D = {} THEN d
    ELSE LET p == CHOOSE q \in D : \A q2 \in D : q <= q2
         IN MergedInto(D \ {p},
                       IF Merges(p)
                       THEN DictUpdate(d, log[p].arg.result.data.map)
                       ELSE d)

\* the root is a composite and its execute() has handed back Failed
RootCompositeFailed ==
    /\ Ended
    /\ root \in Composites
    /\ ret[0].kind = "result"
    /\ ret[0].result.status = "Failed"

(* C32: when a composite fails at child ck, the context holds what the     *)
(* caller passed with the data of the children before ck merged into it,   *)
(* in their order, and nothing else.                                       *)
C32_NoRollbackExact ==
    RootCompositeFailed =>
       \A r \in EventsOf("return", root) :
          context = MergedInto(DirectReturns(r), log[StartOf(r)].arg)

\* the return events in the invocation that returned at r whose data a
\* composite merged or tried to merge: those of its children and those of
\* the children of a child that is a composite
ReturnsToComposites(r) ==
    DirectReturns(r) \cup
       UNION {DirectReturns(p) :
                 p \in {q \in DirectReturns(r) : log[q].id \in Composites}}

\* the context of a failed root composite holds the data of its children
\* that were merged; when no child ran on another task, it holds the data
\* merged by the composites of the call, in the order of the merges, and
\* nothing else
KeepsMerged ==
    RootCompositeFailed =>
       \A r \in EventsOf("return", root) :
          /\ \A p \in DirectReturns(r) :
                Merges(p) =>
                   \A key \in DOMAIN log[p].arg.result.data.map :
                      key \in DOMAIN context
          /\ (\A p \in DirectReturns(r) : log[p].id \notin Parallels) =>
                context = MergedInto(ReturnsToComposites(r),
                                     log[StartOf(r)].arg)

(* C32 as amended: a composite performs no rollback. The step in which a   *)
(* composite fails leaves the context as it is: the data of the children   *)
(* merged before stays, the failing child's result and the children after  *)
(* it add nothing, and what the failing child's own execution merged into  *)
(* the shared context while it ran stays as well.                          *)
C32_NoRollback ==
    [][/\ \A c \in Composites :
             (status[c] = "Running" /\ status'[c] = "Failed") =>
                context' = context
       /\ KeepsMerged']_vars

\* a composite failed at its second child after it had merged the data of
\* its first child, a leaf
C32_Witness ==
    /\ RootCompositeFailed
    /\ Len(instructions[root]) >= 2
    /\ instructions[root][1] \in Leaves
    /\ \E p \in EventsOf("return", instructions[root][1]) : Merges(p)
    /\ EventsOf("execute", instructions[root][1]) # {}
    /\ "name" \in DOMAIN context
    /\ context.name = Str(instructions[root][1])

\* a step of an execute() call: it starts the call or moves it on
ExecutionStep ==
    \/ stack' # stack
    \/ logs' # logs
    \/ status' # status
    \/ ret' # ret
    \/ context' # context

(* C33: execute() leaves the configuration alone: no step of a call, of a  *)
(* leaf or of a combinator, whether the call ends Completed or Failed,     *)
(* changes a list of validation rules, a list of (condition, instruction)  *)
(* pairs or a list of child instructions.                                  *)
C33_ExecuteKeepsConfiguration ==
    [][ExecutionStep =>
          /\ validation_rules' = validation_rules
          /\ conditions' = conditions
          /\ instructions' = instructions]_vars

\* a conditional with two pairs has been executed twice, and a leaf with
\* rules has run under it
C33_Witness ==
    /\ Ended
    /\ root \in Conditionals
    /\ previous.kind = "result"
    /\ Len(conditions[root]) = 2
    /\ ret[0].kind = "result"
    /\ \E l \in Leaves :
          /\ validation_rules[l] # <<>>
          /\ EventsOf("validate", l) # {}

\* the list new is the list old with one entry added at its end
OneAppended(old, new) ==
    /\ Len(new) = Len(old) + 1
    /\ SubSeq(new, 1, Len(old)) = old

\* the lists of rules and of (condition, instruction) pairs that differ
\* between the two states of a step
GrownLists ==
    {<<"validation_rules", l>> :
        l \in {x \in Leaves : validation_rules'[x] # validation_rules[x]}}
    \cup {<<"conditions", c>> :
        c \in {x \in Conditionals : conditions'[x] # conditions[x]}}
    \cup {<<"adaptation_rules", a>> :
        a \in {x \in Adaptives : adaptation_rules'[x] # adaptation_rules[x]}}

(* C34: the configuration operations append. A call of                     *)
(* add_validation_rule, add_condition or add_adaptation_rule changes one   *)
(* list only, which afterwards is the list before the call with one entry  *)
(* at its end; so the list of a fresh instruction holds, after n calls,    *)
(* the n entries in call order.                                            *)
C34_ConfigurationAppends ==
    [][instructions' = instructions =>
          /\ Cardinality(GrownLists) = 1
          /\ \A l \in Leaves :
                validation_rules'[l] # validation_rules[l] =>
                   OneAppended(validation_rules[l], validation_rules'[l])
          /\ \A c \in Conditionals :
                conditions'[c] # conditions[c] =>
                   OneAppended(conditions[c], conditions'[c])
          /\ \A a \in Adaptives :
                adaptation_rules'[a] # adaptation_rules[a] =>
                   OneAppended(adaptation_rules[a], adaptation_rules'[a])]_vars

\* three calls of add_validation_rule on a fresh leaf, each with another rule
C34_Witness ==
    \E l \in Leaves :
       /\ l = root
       /\ validation_rules[l] = <<"true", "false", "raise">>

(* C35: once a predicate of a conditional has returned true, no predicate  *)
(* registered after it is evaluated in that call: the evaluation that      *)
(* returned true is the last evaluation of the call, whatever the later    *)
(* predicates would have returned or raised.                               *)
C35_NoEvaluationAfterMatch ==
    \A c \in Conditionals :
       \A k \in EventsOf("condition", c) :
          conditions[c][log[k].arg].condition = "true" =>
             \A j \in EventsOf("condition", c) :
                /\ j <= k
                /\ log[j].arg <= log[k].arg

\* the second of three predicates returned true and the third, which would
\* have raised, was not evaluated
C35_Witness ==
    /\ Ended
    /\ root \in Conditionals
    /\ Len(conditions[root]) = 3
    /\ conditions[root][1].condition = "false"
    /\ conditions[root][2].condition = "true"
    /\ conditions[root][3].condition = "raise"
    /\ {log[k].arg : k \in EventsOf("condition", root)} = {1, 2}
    /\ ret[0].kind = "result"
    /\ ret[0].result.status = "Completed"

(* C36: within one execute() call of a composite, a conditional or a       *)
(* parallel, the execute() of each child is invoked at most once: no       *)
(* child is run again or retried, also when it failed.                     *)
C36_ChildInvokedAtMostOnce ==
    \A c \in Composites \cup Conditionals \cup Parallels :
       \A kid \in Kids(c) :
          Cardinality(EventsOf("execute", kid)) <= 1

\* the first child of a composite handed back Failed; it was invoked once,
\* and so was the composite
C36_Witness ==
    /\ Ended
    /\ root \in Composites
    /\ instructions[root] # <<>>
    /\ \E j \in EventsOf("return", instructions[root][1]) :
          /\ log[j].arg.kind = "result"
          /\ log[j].arg.result.status = "Failed"
    /\ Cardinality(EventsOf("execute", instructions[root][1])) = 1
    /\ Cardinality(EventsOf("return", root)) = 1

\* call i created the agent with identifier id on the factory instance
CreatedAt(i, id) ==
    /\ calls[i].op = "create_agent"
    /\ calls[i].outcome.kind = "return"
    /\ calls[i].outcome.value.id = id

\* the agents created in the first n calls and not removed since, by id
LiveAfter(n) ==
    {id \in 1..(MaxCalls + 1) :
        \E i \in 1..n :
           /\ CreatedAt(i, id)
           /\ \A j \in (i + 1)..n :
                 ~(calls[j].op = "remove_agent"
                      /\ calls[j].arg.agent_id = id)}

\* the agent the factory handed back when it created id
CreatedAgent(id) ==
    LET i == CHOOSE j \in DOMAIN calls : CreatedAt(j, id)
    IN calls[i].outcome.value

(* C37: after any sequence of calls the registry holds the agents created  *)
(* and not removed since, each under its id: get_agent(id) hands back the  *)
(* agent created with that id when it is among them and None otherwise,    *)
(* and list_agents() hands back their ids and no other.                    *)
C37_RegistryHoldsLiveAgents ==
    /\ DOMAIN agents = LiveAfter(Len(calls))
    /\ \A id \in DOMAIN agents : agents[id] = CreatedAgent(id)
    /\ \A n \in DOMAIN calls :
          /\ calls[n].op = "get_agent" =>
                calls[n].outcome =
                   IF calls[n].arg.agent_id \in LiveAfter(n - 1)
                   THEN Returned(CreatedAgent(calls[n].arg.agent_id))
                   ELSE Returned(None)
          /\ calls[n].op = "list_agents" =>
                /\ calls[n].outcome.kind = "return"
                /\ Range(calls[n].outcome.value.items) = LiveAfter(n - 1)
                /\ Len(calls[n].outcome.value.items) =
                      Cardinality(LiveAfter(n - 1))

\* an agent was created and then removed, and get_agent or list_agents was
\* called on the registry that is empty again
C37_Witness ==
    /\ Len(calls) >= 3
    /\ \E i, j \in DOMAIN calls :
          /\ i < j
          /\ calls[i].op = "create_agent"
          /\ calls[i].outcome.kind = "return"
          /\ calls[j].op = "remove_agent"
          /\ calls[j].arg.agent_id = calls[i].outcome.value.id
    /\ calls[Len(calls)].op \in {"get_agent", "list_agents"}
    /\ agents = EmptyDict

\* the step is the call op on the factory
FactoryCall(op) ==
    /\ Len(calls') = Len(calls) + 1
    /\ calls'[Len(calls')].op = op

(* C38: remove_agent with an id that is not registered does nothing: it    *)
(* raises no error, returns None and leaves the registry with every entry  *)
(* as it was; remove_agent with a registered id takes out that entry only; *)
(* get_agent and list_agents leave the registry unchanged.                 *)
C38_RemoveUnknownIsNoOp ==
    [][/\ FactoryCall("remove_agent") =>
             LET id == calls'[Len(calls')].arg.agent_id
             IN /\ calls'[Len(calls')].outcome = Returned(None)
                /\ id \notin DOMAIN agents => agents' = agents
                /\ DOMAIN agents' = DOMAIN agents \ {id}
                /\ \A k \in DOMAIN agents' : agents'[k] = agents[k]
       /\ (FactoryCall("get_agent") \/ FactoryCall("list_agents")) =>
             agents' = agents]_vars

\* remove_agent was called with an id that is not registered while another
\* agent is, and that agent is still there
C38_Witness ==
    /\ agents # EmptyDict
    /\ Len(calls) >= 2
    /\ calls[Len(calls)].op = "remove_agent"
    /\ calls[Len(calls)].arg.agent_id \notin LiveAfter(Len(calls) - 1)
    /\ calls[Len(calls)].outcome = Returned(None)
====
